---- MODULE Spec2Model ----
(***************************************************************************)
(* A model of the GitHub -> Discord notification bot: the webhook endpoint *)
(* (src/src/index.ts), the signature verifier and event handlers           *)
(* (src/src/github/webhook.ts), the routing policy (src/src/config/config.ts)*)
(* and the Discord sender (src/src/discord/bot.ts).                        *)
(*                                                                         *)
(* Strings the code inspects character by character (signature headers,    *)
(* hex digests, refs, branch names, branch patterns) are sequences of      *)
(* one-character strings.  Strings the code only compares for equality     *)
(* (repository names, channel ids, event names, actions) are TLA+ strings. *)
(***************************************************************************)
EXTENDS Integers, Sequences, FiniteSets, TLC

\* ------------------------------------------------------------------ bounds
\* The digest of the abstract keyed hash has DigestBytes bytes (SHA-256 has 32).
DigestBytes == 2

\* --------------------------------------------------------- string helpers
\* String.prototype.includes / indexOf for a one-character needle.
IncludesChar(s, c) == \E i \in 1..Len(s) : s[i] = c

IndexOfChar(s, c) == CHOOSE i \in 1..Len(s) : s[i] = c /\ \A j \in 1..(i-1) : s[j] # c

\* String.prototype.split(sep) for a one-character separator: the array of pieces.
RECURSIVE Split(_, _)
Split(s, sep) ==
    IF ~IncludesChar(s, sep) THEN << s >>
    ELSE LET i == IndexOfChar(s, sep)
         IN  << SubSeq(s, 1, i - 1) >> \o Split(SubSeq(s, i + 1, Len(s)), sep)

\* Whether needle occurs in s at position i.
OccursAt(s, needle, i) ==
    /\ i + Len(needle) - 1 <= Len(s)
    /\ SubSeq(s, i, i + Len(needle) - 1) = needle

\* String.prototype.replace(needle, '') with a string needle: the first occurrence
\* (anywhere in s) is removed, or s is returned unchanged.
RemoveFirst(s, needle) ==
    IF \E i \in 1..Len(s) : OccursAt(s, needle, i)
    THEN LET i == CHOOSE k \in 1..Len(s) :
                     OccursAt(s, needle, k) /\ \A j \in 1..(k-1) : ~OccursAt(s, needle, j)
         IN  SubSeq(s, 1, i - 1) \o SubSeq(s, i + Len(needle), Len(s))
    ELSE s

\* ------------------------------------------------------ signature verifier
LowerHex == {"0", "a"}
UpperHex == {"A"}
NonHex   == {"g"}
HexAlphabet == LowerHex \cup UpperHex \cup NonHex

\* The value of a hexadecimal digit, as Buffer.from(_, 'hex') reads it (either case).
IsHexDigit(c) == c \in LowerHex \cup UpperHex

HexVal(c) == CASE c = "0" -> 0
               [] c = "a" -> 10
               [] c = "A" -> 10
               [] OTHER   -> 0

\* Buffer.from(h, 'hex'): pairs of hex digits become bytes; decoding stops at the
\* first pair that is not two hex digits, and an odd last character is dropped.
RECURSIVE BufferFromHex(_)
BufferFromHex(h) ==
    IF Len(h) < 2 THEN << >>
    ELSE IF IsHexDigit(h[1]) /\ IsHexDigit(h[2])
         THEN << 16 * HexVal(h[1]) + HexVal(h[2]) >> \o BufferFromHex(SubSeq(h, 3, Len(h)))
         ELSE << >>

\* crypto.timingSafeEqual(a, b): raises RangeError when the byte lengths differ.
timingSafeEqual(a, b) ==
    IF Len(a) # Len(b) THEN "RangeError"
    ELSE IF a = b THEN "true" ELSE "false"

\* The secrets and the raw request bodies of the model.  A raw body is the text of
\* the request; json says whether JSON.parse accepts it, the other fields are what
\* the parsed object holds (Undefined: the property is absent).
Undefined == << "undefined" >>
Secrets == {"s1", "s2"}

SecretIx(secret) == IF secret = "s1" THEN 0 ELSE 1

RefsHeads == << "r", "e", "f", "s", "/", "h", "e", "a", "d", "s", "/" >>
Main      == << "m", "a", "i", "n" >>
Develop   == << "d", "e", "v", "e", "l", "o", "p" >>
Release10 == << "r", "e", "l", "e", "a", "s", "e", "/", "1", ".", "0" >>
Release1x0 == << "r", "e", "l", "e", "a", "s", "e", "/", "1", "x", "0" >>
Empty     == << >>
ReleaseStar     == << "r", "e", "l", "e", "a", "s", "e", "/", "*" >>
Release1DotStar == << "r", "e", "l", "e", "a", "s", "e", "/", "1", ".", "*" >>
Sha1Prefix == << "s", "h", "a", "1" >>
Eq == << "=" >>

\* const validEvents of validateConfig; the cases of handleWebhook's switch.
EventTypes == {"push", "pull_request", "issues", "release"}

BranchNames == {Main, Develop, Release10, Release1x0, Empty}
RepoNames   == {"org/app", "org/other"}
Actions     == {"opened", "closed", "synchronize", "reopened", "published", "created"}

NotJson == [json |-> FALSE, repo |-> "undefined", ref |-> Undefined,
            action |-> "undefined", head |-> Undefined]

JsonBody(repo, ref, action, head) ==
    [json |-> TRUE, repo |-> repo, ref |-> ref, action |-> action, head |-> head]

\* crypto.createHmac('sha256', secret).update(payload).digest('hex'), with the hash
\* an abstract keyed function: HmacIndex numbers the digest, written as
\* 2 * DigestBytes lower-case hex digits.
BodyIx(payload) ==
    IF ~payload.json THEN 0
    ELSE 1 + (((IF payload.repo = "org/app" THEN 0 ELSE 1)
               + Len(payload.ref) + Len(payload.head)
               + (IF payload.action \in {"opened", "published"} THEN 1 ELSE 0)) % 3)

HmacIndex(secret, payload) == 4 * SecretIx(secret) + BodyIx(payload)

Pow2(n) == IF n = 0 THEN 1 ELSE IF n = 1 THEN 2 ELSE IF n = 2 THEN 4 ELSE 8

HmacHex(secret, payload) ==
    [i \in 1..(2 * DigestBytes) |->
        IF i <= 4 /\ (HmacIndex(secret, payload) \div Pow2(i - 1)) % 2 = 1
        THEN "a" ELSE "0"]

Sha256Prefix == << "s", "h", "a", "2", "5", "6" >>

\* function verifySignature(payload, signature, secret): "true", "false", or the
\* RangeError that crypto.timingSafeEqual raises.
verifySignature(payload, signature, secret) ==
    IF signature = << >> THEN "false"
    ELSE LET sigParts == Split(signature, "=")
         IN  IF Len(sigParts) # 2 \/ sigParts[1] # Sha256Prefix THEN "false"
             ELSE LET receivedSignature == sigParts[2]
                      expectedSignature == HmacHex(secret, payload)
                  IN  timingSafeEqual(BufferFromHex(receivedSignature),
                                      BufferFromHex(expectedSignature))

\* --------------------------------------------------------- pattern matcher
\* b.replace(/\*/g, '.*'): every '*' of the pattern becomes the two characters ".*";
\* every other character, '.' included, is copied as it is.
RECURSIVE ReplaceStars(_)
ReplaceStars(b) ==
    IF b = << >> THEN << >>
    ELSE (IF b[1] = "*" THEN << ".", "*" >> ELSE << b[1] >>) \o ReplaceStars(Tail(b))

\* new RegExp(source): the source read as a list of atoms, each '.' (any character)
\* or a literal character, each with or without a '*' quantifier.  The sources the
\* model builds hold letters, digits, '/', '.' and '*' only.
RECURSIVE RegExpCompile(_)
RegExpCompile(source) ==
    IF source = << >> THEN << >>
    ELSE LET star == Len(source) >= 2 /\ source[2] = "*"
         IN  << [any |-> source[1] = ".", ch |-> source[1], star |-> star] >>
             \o RegExpCompile(SubSeq(source, IF star THEN 3 ELSE 2, Len(source)))

AtomMatches(atom, c) == atom.any \/ atom.ch = c

\* /^...$/.test(s): the whole of s is matched by the atoms, in order.
RECURSIVE RegExpTest(_, _)
RegExpTest(atoms, s) ==
    IF atoms = << >> THEN s = << >>
    ELSE LET atom == Head(atoms)
         IN  IF atom.star
             THEN \/ RegExpTest(Tail(atoms), s)
                  \/ s # << >> /\ AtomMatches(atom, Head(s)) /\ RegExpTest(atoms, Tail(s))
             ELSE s # << >> /\ AtomMatches(atom, Head(s)) /\ RegExpTest(Tail(atoms), Tail(s))

Star == << "*" >>

\* The callback of repoConfig.excludeBranches.some(...).
excludeMatches(b, branch) ==
    IF b = Star THEN TRUE
    ELSE IF IncludesChar(b, "*")
         THEN RegExpTest(RegExpCompile(ReplaceStars(b)), branch)
         ELSE b = branch

\* The callback of repoConfig.branches.some(...).
branchMatches(b, branch) ==
    IF b = Star THEN TRUE
    ELSE IF IncludesChar(b, "*")
         THEN RegExpTest(RegExpCompile(ReplaceStars(b)), branch)
         ELSE b = branch

\* --------------------------------------------------------- routing policy
\* A configuration: [default, repositories (the discord.channels.repositories map, a
\* function on the repository names that have an entry), rules (the repositories
\* array)].  A rule: [name, events (a set), branches, excludeBranches, channel].
\* excludeBranches << >> stands for an absent or empty list, which the code treats
\* alike; channel Absent stands for an absent property.
Absent == "<absent>"

\* JavaScript truthiness of an optional string.
Truthy(s) == s # Absent /\ s # ""

\* cfg.repositories.find(r => r.name === repoName): the index of the first rule of
\* that name, 0 when there is none.
FindRule(cfg, repoName) ==
    IF \E i \in 1..Len(cfg.rules) : cfg.rules[i].name = repoName
    THEN CHOOSE i \in 1..Len(cfg.rules) :
             /\ cfg.rules[i].name = repoName
             /\ \A j \in 1..(i-1) : cfg.rules[j].name # repoName
    ELSE 0

\* The branch filter letting every branch through.
branchCheck_IgnoresPatterns(repoConfig, branch) == TRUE

\* The body of "if (branch) { ... }" of shouldHandleEvent: FALSE when the function
\* returns false there.
branchCheck(repoConfig, branch) ==
    LET isExcluded == \E i \in 1..Len(repoConfig.excludeBranches) :
                          excludeMatches(repoConfig.excludeBranches[i], branch)
        matches    == \E i \in 1..Len(repoConfig.branches) :
                          branchMatches(repoConfig.branches[i], branch)
    IN  IF isExcluded THEN FALSE ELSE matches

\* if (branch): an absent branch and the empty string are both falsy.
BranchProvided(branch) == branch # Undefined /\ branch # << >>

\* shouldHandleEvent without its check of the rule's events.
shouldHandleEvent_NoEventCheck(repoName, eventType, branch, cfg) ==
    LET k == FindRule(cfg, repoName)
    IN  IF k = 0 THEN FALSE
        ELSE IF BranchProvided(branch) THEN branchCheck(cfg.rules[k], branch)
        ELSE TRUE

\* export function shouldHandleEvent(repoName, eventType, branch?, config?)
shouldHandleEvent(repoName, eventType, branch, cfg) ==
    LET k == FindRule(cfg, repoName)
    IN  IF k = 0 THEN FALSE
        ELSE IF eventType \notin cfg.rules[k].events THEN FALSE
        ELSE IF BranchProvided(branch) THEN branchCheck(cfg.rules[k], branch)
        ELSE TRUE

\* getChannelForRepository without its guard against the placeholders "true"/"false".
getChannelForRepository_NoPlaceholderGuard(repoName, cfg) ==
    LET k == FindRule(cfg, repoName)
    IN  IF k # 0 /\ Truthy(cfg.rules[k].channel)
        THEN cfg.rules[k].channel
        ELSE IF repoName \in DOMAIN cfg.repositories /\ Truthy(cfg.repositories[repoName])
        THEN cfg.repositories[repoName]
        ELSE cfg.default

\* export function getChannelForRepository(repoName, config?)
getChannelForRepository(repoName, cfg) ==
    LET k == FindRule(cfg, repoName)
    IN  IF k # 0 /\ Truthy(cfg.rules[k].channel)
           /\ cfg.rules[k].channel # "true" /\ cfg.rules[k].channel # "false"
        THEN cfg.rules[k].channel
        ELSE IF repoName \in DOMAIN cfg.repositories /\ Truthy(cfg.repositories[repoName])
        THEN cfg.repositories[repoName]
        ELSE cfg.default

\* --------------------------------------------------------- credential vault
\* Bytes are the integers 0..255; a JavaScript string handed to the cipher is the
\* sequence of its UTF-16 code units.
SALT_LENGTH == 64
IV_LENGTH   == 16
TAG_LENGTH  == 16

\* if (!encryptionKey || encryptionKey.length < 32)
MinKeyLength == 32

RECURSIVE SumBytes(_)
SumBytes(b) == IF b = << >> THEN 0 ELSE Head(b) + SumBytes(Tail(b))

\* buf.subarray(from, to), 0-based and clamped to the buffer as Node does.
Subarray(buf, from, to) ==
    LET lo == IF from > Len(buf) THEN Len(buf) ELSE from
        hi == IF to > Len(buf) THEN Len(buf) ELSE to
    IN  IF hi <= lo THEN << >> ELSE SubSeq(buf, lo + 1, hi)

IsHighSurrogate(u) == u >= 55296 /\ u <= 56319
IsLowSurrogate(u)  == u >= 56320 /\ u <= 57343

\* The UTF-8 bytes Node writes for a string (cipher.update(token, 'utf8')): a
\* surrogate pair becomes one four-byte sequence, a surrogate without its partner
\* becomes the bytes of U+FFFD.
RECURSIVE Utf8Write(_)
Utf8Write(units) ==
    IF units = << >> THEN << >>
    ELSE LET u == Head(units)
         IN  IF u < 128 THEN << u >> \o Utf8Write(Tail(units))
             ELSE IF u < 2048
             THEN << 192 + (u \div 64), 128 + (u % 64) >> \o Utf8Write(Tail(units))
             ELSE IF IsHighSurrogate(u) /\ Len(units) >= 2 /\ IsLowSurrogate(units[2])
             THEN LET cp == 65536 + (u - 55296) * 1024 + (units[2] - 56320)
                  IN  << 240 + (cp \div 262144), 128 + ((cp \div 4096) % 64),
                         128 + ((cp \div 64) % 64), 128 + (cp % 64) >>
                      \o Utf8Write(Tail(Tail(units)))
             ELSE IF IsHighSurrogate(u) \/ IsLowSurrogate(u)
             THEN << 239, 191, 189 >> \o Utf8Write(Tail(units))
             ELSE << 224 + (u \div 4096), 128 + ((u \div 64) % 64), 128 + (u % 64) >>
                  \o Utf8Write(Tail(units))

IsContinuation(b) == b >= 128 /\ b < 192

\* buf.toString('utf8'): the code units of the decoded text; a byte that starts no
\* complete sequence decodes to U+FFFD.
RECURSIVE Utf8ToString(_)
Utf8ToString(b) ==
    IF b = << >> THEN << >>
    ELSE IF b[1] < 128 THEN << b[1] >> \o Utf8ToString(Tail(b))
    ELSE IF b[1] >= 192 /\ b[1] < 224 /\ Len(b) >= 2 /\ IsContinuation(b[2])
    THEN << (b[1] - 192) * 64 + (b[2] - 128) >> \o Utf8ToString(SubSeq(b, 3, Len(b)))
    ELSE IF b[1] >= 224 /\ b[1] < 240 /\ Len(b) >= 3
            /\ IsContinuation(b[2]) /\ IsContinuation(b[3])
    THEN << (b[1] - 224) * 4096 + (b[2] - 128) * 64 + (b[3] - 128) >>
         \o Utf8ToString(SubSeq(b, 4, Len(b)))
    ELSE IF b[1] >= 240 /\ b[1] < 248 /\ Len(b) >= 4
            /\ IsContinuation(b[2]) /\ IsContinuation(b[3]) /\ IsContinuation(b[4])
    THEN LET cp == (b[1] - 240) * 262144 + (b[2] - 128) * 4096
                   + (b[3] - 128) * 64 + (b[4] - 128) - 65536
         IN  << 55296 + (cp \div 1024), 56320 + (cp % 1024) >>
             \o Utf8ToString(SubSeq(b, 5, Len(b)))
    ELSE << 65533 >> \o Utf8ToString(Tail(b))

\* A base64 string is the sequence of its characters, each the number 0..63 of its
\* place in the alphabet, Base64Pad for '='.
Base64Pad == 64

\* combined.toString('base64')
RECURSIVE Base64Encode(_)
Base64Encode(b) ==
    IF b = << >> THEN << >>
    ELSE IF Len(b) = 1
    THEN << b[1] \div 4, (b[1] % 4) * 16, Base64Pad, Base64Pad >>
    ELSE IF Len(b) = 2
    THEN << b[1] \div 4, (b[1] % 4) * 16 + (b[2] \div 16), (b[2] % 16) * 4, Base64Pad >>
    ELSE << b[1] \div 4, (b[1] % 4) * 16 + (b[2] \div 16),
            (b[2] % 16) * 4 + (b[3] \div 64), b[3] % 64 >>
         \o Base64Encode(SubSeq(b, 4, Len(b)))

RECURSIVE Base64Sextets(_)
Base64Sextets(s) ==
    IF Len(s) < 2 THEN << >>
    ELSE IF Len(s) = 2 THEN << s[1] * 4 + (s[2] \div 16) >>
    ELSE IF Len(s) = 3
    THEN << s[1] * 4 + (s[2] \div 16), (s[2] % 16) * 16 + (s[3] \div 4) >>
    ELSE << s[1] * 4 + (s[2] \div 16), (s[2] % 16) * 16 + (s[3] \div 4),
            (s[3] % 4) * 64 + s[4] >>
         \o Base64Sextets(SubSeq(s, 5, Len(s)))

\* Buffer.from(s, 'base64'): the characters before the first '=' are decoded, as
\* many whole bytes as they hold; a string cut short is not an error.
BufferFromBase64(s) ==
    LET pads == {i \in 1..Len(s) : s[i] = Base64Pad}
        n    == IF pads = {} THEN Len(s)
                ELSE (CHOOSE i \in pads : \A j \in pads : i <= j) - 1
    IN  Base64Sextets(SubSeq(s, 1, n))

\* An operator key is the sequence of its character codes; << >> stands for the
\* empty string and for an absent key alike (both are falsy).
\* function deriveKey(encryptionKey, salt): PBKDF2 as an abstract function, the
\* derived key being the pair it was derived from.
deriveKey(encryptionKey, salt) == [password |-> encryptionKey, salt |-> salt]

\* AES-256-GCM as an abstract authenticated cipher.  KeyByte folds a derived key
\* into the key stream and the tag.
KeyByte(key) == (SumBytes(key.password) + SumBytes(key.salt) + Len(key.salt)) % 256

\* cipher.update(...) and cipher.final(): one ciphertext byte per plaintext byte.
GcmEncrypt(key, iv, plain) ==
    [i \in 1..Len(plain) |-> (plain[i] + KeyByte(key) + SumBytes(iv) + i) % 256]

GcmDecrypt(key, iv, encrypted) ==
    [i \in 1..Len(encrypted) |->
        (encrypted[i] + 256 * (Len(iv) + 2) - KeyByte(key) - SumBytes(iv) - i) % 256]

\* cipher.getAuthTag(): TAG_LENGTH bytes that depend on the key, the IV and every
\* byte of the ciphertext.
GcmTag(key, iv, encrypted) ==
    [i \in 1..TAG_LENGTH |->
        CASE i = 1 -> KeyByte(key)
          [] i = 2 -> (SumBytes(iv) + Len(iv)) % 256
          [] i = 3 -> SumBytes(encrypted) % 256
          [] i = 4 -> Len(encrypted) % 256
          [] OTHER -> (17 * i) % 256]

\* The tag lengths decipher.setAuthTag takes for GCM when the decipher was created
\* without authTagLength: TAG_LENGTH, and, on a runtime that still takes short
\* tags, 4, 8 and 12 to 15 bytes.
TagLengthTaken(n, shortTags) ==
    n = TAG_LENGTH \/ (shortTags /\ n \in {4, 8, 12, 13, 14, 15})

\* createDecipheriv, setAuthTag, update and final: TRUE when none of them throws.
\* An empty IV is refused; the tag given is compared with as many bytes of the
\* computed tag as it has.
GcmOpens(key, iv, tag, encrypted, shortTags) ==
    /\ iv # << >>
    /\ TagLengthTaken(Len(tag), shortTags)
    /\ tag = SubSeq(GcmTag(key, iv, encrypted), 1, Len(tag))

KeyRejected(encryptionKey) == encryptionKey = << >> \/ Len(encryptionKey) < MinKeyLength

\* encryptToken accepting a key of any length.
encryptToken_NoKeyCheck(token, encryptionKey, salt, iv) ==
    LET key       == deriveKey(encryptionKey, salt)
        encrypted == GcmEncrypt(key, iv, Utf8Write(token))
        tag       == GcmTag(key, iv, encrypted)
    IN  [error |-> "none", derived |-> TRUE,
         value |-> Base64Encode(salt \o iv \o tag \o encrypted)]

\* export function encryptToken(token, encryptionKey), salt and iv being what the
\* two calls of crypto.randomBytes gave: the error thrown ("none": it returns),
\* whether deriveKey was called, and the string returned.
encryptToken(token, encryptionKey, salt, iv) ==
    IF KeyRejected(encryptionKey)
    THEN [error |-> "ConfigError", derived |-> FALSE, value |-> << >>]
    ELSE LET key       == deriveKey(encryptionKey, salt)
             encrypted == GcmEncrypt(key, iv, Utf8Write(token))
             tag       == GcmTag(key, iv, encrypted)
         IN  [error |-> "none", derived |-> TRUE,
              value |-> Base64Encode(salt \o iv \o tag \o encrypted)]

\* decryptToken reading the segments in the order salt, tag, iv.
decryptToken_TagBeforeIv(encryptedToken, encryptionKey, shortTags) ==
    IF KeyRejected(encryptionKey)
    THEN [error |-> "ConfigError", derived |-> FALSE, value |-> << >>]
    ELSE LET combined  == BufferFromBase64(encryptedToken)
             salt      == Subarray(combined, 0, SALT_LENGTH)
             tag       == Subarray(combined, SALT_LENGTH, SALT_LENGTH + TAG_LENGTH)
             iv        == Subarray(combined, SALT_LENGTH + TAG_LENGTH,
                                   SALT_LENGTH + IV_LENGTH + TAG_LENGTH)
             encrypted == Subarray(combined, SALT_LENGTH + IV_LENGTH + TAG_LENGTH,
                                   Len(combined))
             key       == deriveKey(encryptionKey, salt)
         IN  IF GcmOpens(key, iv, tag, encrypted, shortTags)
             THEN [error |-> "none", derived |-> TRUE,
                   value |-> Utf8ToString(GcmDecrypt(key, iv, encrypted))]
             ELSE [error |-> "DecryptError", derived |-> TRUE, value |-> << >>]

\* export function decryptToken(encryptedToken, encryptionKey); shortTags says
\* whether the runtime's decipher takes a tag shorter than TAG_LENGTH.
decryptToken(encryptedToken, encryptionKey, shortTags) ==
    IF KeyRejected(encryptionKey)
    THEN [error |-> "ConfigError", derived |-> FALSE, value |-> << >>]
    ELSE LET combined  == BufferFromBase64(encryptedToken)
             salt      == Subarray(combined, 0, SALT_LENGTH)
             iv        == Subarray(combined, SALT_LENGTH, SALT_LENGTH + IV_LENGTH)
             tag       == Subarray(combined, SALT_LENGTH + IV_LENGTH,
                                   SALT_LENGTH + IV_LENGTH + TAG_LENGTH)
             encrypted == Subarray(combined, SALT_LENGTH + IV_LENGTH + TAG_LENGTH,
                                   Len(combined))
             key       == deriveKey(encryptionKey, salt)
         IN  IF GcmOpens(key, iv, tag, encrypted, shortTags)
             THEN [error |-> "none", derived |-> TRUE,
                   value |-> Utf8ToString(GcmDecrypt(key, iv, encrypted))]
             ELSE [error |-> "DecryptError", derived |-> TRUE, value |-> << >>]

\* ------------------------------------------------------------------ state
VARIABLES
    vIn, vOut,      \* a call of verifySignature: its arguments, its result
    rIn, rOut,      \* a call of the routing policy: its arguments, its result
    webhookSecret,  \* webhook.ts: let webhookSecret
    cachedConfig,   \* config.ts: let cachedConfig
    configFile,     \* config.json on disk
    pc,             \* where the webhook request in progress stands
    req,            \* the delivery: signature, event, deliveryId, rawBody
    payload,        \* the parsed payload handed to handleWebhook
    log,            \* the steps taken for the delivery, in order
    verified,       \* what verifySignature gave for the delivery
    decision,       \* what shouldHandleEvent returned for the delivery
    channelId,      \* what getChannelForRepository returned for the delivery
    sent,           \* the channels a message was sent to for the delivery
    err,            \* the error being propagated, "none" when there is none
    response,       \* the HTTP status sent, 0 before the response
    cIn, cOut,      \* calls of encryptToken and decryptToken: arguments, results
    cachedToken,    \* oauth.ts: let cachedToken
    redisClient,    \* whether getRedisClient() gives a client
    redisValue,     \* what the Redis key github:token holds
    tokenFile,      \* what the file .github_token holds
    caller,         \* where each call of getStoredToken in progress stands
    derivations,    \* how many times decryptToken derived a key
    cacheWrites,    \* how many times cachedToken was assigned
    mIn,            \* a manual replay: which function, its arguments, GitHub's branches
    mpc,            \* where the manual replay in progress stands
    branchesWithDates, \* postCommit: const branchesWithDates, once Promise.all settled
    toCheck,        \* postCommit: let branchesToCheck
    examined,       \* postCommit: what each turn of the candidate loop met, in order
    branchCandidates, \* postCommit: const branchCandidates
    resolvedBranch, \* postCommit: let branch
    posted,         \* the messages the manual replay sent: channel and ref
    manualStatus,   \* the HTTP status of the manual endpoint, 0 before the response
    sessionStore,   \* the oauthState the session store holds for the browser session
    handlers,       \* the requests to /auth/github and its callback: where each stands
    issued,         \* how many state values /auth/github has generated
    exchanges,      \* the calls of exchangeCodeForToken, in order
    storer,         \* where the call of storeToken stands
    completed,      \* the token whose storeToken has completed
    restarted,      \* whether the process was restarted after the store
    inFlight        \* the concurrent webhook deliveries: where each handler stands

verifyVars == << vIn, vOut >>
routeVars  == << rIn, rOut >>
pipeVars   == << webhookSecret, cachedConfig, configFile, pc, req, payload, log,
                 verified, decision, channelId, sent, err, response >>
tokenVars  == << cIn, cOut >>
vaultVars  == << cachedToken, redisClient, redisValue, tokenFile, caller, derivations,
                 cacheWrites >>
manualVars == << mIn, mpc, branchesWithDates, toCheck, examined, branchCandidates,
                 resolvedBranch, posted, manualStatus >>
oauthVars  == << sessionStore, handlers, issued, exchanges >>
storeVars  == << storer, completed, restarted >>
sharedVars == << inFlight >>
restVars   == << manualVars, oauthVars, storeVars, sharedVars >>
vars == << verifyVars, routeVars, pipeVars, tokenVars, vaultVars, restVars >>

\* ------------------------------------------------ configuration loading
NoConfig == [null |-> TRUE]

\* function validateConfig(config): "ok", or "ConfigError" for the Error it throws.
\* A missing discord section, channels section or default all show as a default
\* that is not truthy.
validateConfig(config) ==
    IF ~Truthy(config.default) THEN "ConfigError"
    ELSE IF \E i \in 1..Len(config.rules) :
                \/ ~Truthy(config.rules[i].name)
                \/ config.rules[i].events = {}
                \/ config.rules[i].branches = << >>
                \/ ~(config.rules[i].events \subseteq EventTypes)
         THEN "ConfigError"
         ELSE "ok"

\* loadConfig assigning the cache before validateConfig has passed.
loadConfig_CachesBeforeValidation(cached, file) ==
    IF cached # NoConfig THEN [error |-> "none", config |-> cached]
    ELSE IF ~file.exists THEN [error |-> "ConfigNotFound", config |-> NoConfig]
    ELSE IF ~file.json THEN [error |-> "InvalidJSON", config |-> NoConfig]
    ELSE IF validateConfig(file.cfg) # "ok" THEN [error |-> "ConfigError", config |-> file.cfg]
    ELSE [error |-> "none", config |-> file.cfg]

\* export function loadConfig(), given the cache and the file on disk: the error it
\* throws ("none": it returns) and the cache it leaves.
loadConfig(cached, file) ==
    IF cached # NoConfig THEN [error |-> "none", config |-> cached]
    ELSE IF ~file.exists THEN [error |-> "ConfigNotFound", config |-> NoConfig]
    ELSE IF ~file.json THEN [error |-> "InvalidJSON", config |-> NoConfig]
    ELSE IF validateConfig(file.cfg) # "ok" THEN [error |-> "ConfigError", config |-> NoConfig]
    ELSE [error |-> "none", config |-> file.cfg]

\* The config.json files of the model.
CfgPushMain ==
    [default |-> "chDefault", repositories |-> << >>,
     rules |-> << [name |-> "org/app", events |-> {"push"}, branches |-> << Main >>,
                   excludeBranches |-> << >>, channel |-> Absent] >>]

CfgTwoRules ==
    [default |-> "chDefault", repositories |-> ("org/other" :> "chMap"),
     rules |-> << [name |-> "org/app", events |-> EventTypes, branches |-> << Star >>,
                   excludeBranches |-> << ReleaseStar >>, channel |-> "chApp"],
                  [name |-> "org/other", events |-> {"pull_request", "issues", "release"},
                   branches |-> << Main, Release1DotStar >>, excludeBranches |-> << >>,
                   channel |-> "true"] >>]

CfgNoEvents ==
    [default |-> "chDefault", repositories |-> << >>,
     rules |-> << [name |-> "org/app", events |-> {}, branches |-> << Star >>,
                   excludeBranches |-> << >>, channel |-> Absent] >>]

ConfigFiles ==
    {[exists |-> FALSE, json |-> FALSE, cfg |-> CfgPushMain],
     [exists |-> TRUE, json |-> FALSE, cfg |-> CfgPushMain]}
    \cup {[exists |-> TRUE, json |-> TRUE, cfg |-> c] :
             c \in {CfgPushMain, CfgTwoRules, CfgNoEvents}}

\* ------------------------------------------------------- webhook deliveries
Refs == {RefsHeads \o b : b \in {Main, Develop, Release10, Empty}} \cup {Undefined}

PayloadRepos == RepoNames \cup {"undefined"}

PushBodies == {JsonBody(r, ref, "undefined", Undefined) : r \in PayloadRepos, ref \in Refs}

PullRequestBodies ==
    {JsonBody(r, Undefined, a, h) :
        r \in PayloadRepos, a \in Actions, h \in {Main, Release10, Empty, Undefined}}

IssueBodies == {JsonBody(r, Undefined, a, Undefined) : r \in PayloadRepos, a \in Actions}

RawBodies == {NotJson} \cup PushBodies \cup PullRequestBodies \cup IssueBodies

\* The x-hub-signature-256 headers a delivery of a body may carry: none, the right
\* one, one made with another secret, one with an empty digest, one with another
\* prefix.
SignaturesFor(body) ==
    {<< >>,
     Sha256Prefix \o Eq \o HmacHex("s1", body),
     Sha256Prefix \o Eq \o HmacHex("s2", body),
     Sha256Prefix \o Eq,
     Sha1Prefix \o Eq \o HmacHex("s1", body)}

Deliveries ==
    UNION {[signature : SignaturesFor(body), event : EventTypes \cup {"ping", Absent},
            deliveryId : {"d1", Absent}, rawBody : {body}] : body \in RawBodies}

NoReq == [none |-> TRUE]

\* JSON.parse(rawBody), for a body it accepts: the object with the body's properties.
JSONparse(rawBody) ==
    [repo |-> rawBody.repo, ref |-> rawBody.ref, action |-> rawBody.action,
     head |-> rawBody.head]

NoPayload == [repo |-> "undefined", ref |-> Undefined, action |-> "undefined",
              head |-> Undefined]

PipeInit ==
    /\ webhookSecret = "s1"
    /\ configFile \in ConfigFiles
    /\ cachedConfig = loadConfig(NoConfig, configFile).config
    /\ pc = "idle"
    /\ req = NoReq
    /\ payload = NoPayload
    /\ log = << >>
    /\ verified = "none"
    /\ decision = "none"
    /\ channelId = "none"
    /\ sent = << >>
    /\ err = "none"
    /\ response = 0

\* The state of the endpoint in the specifications of the single calls.
PipeIdle ==
    /\ webhookSecret = "s1"
    /\ configFile = [exists |-> FALSE, json |-> FALSE, cfg |-> CfgPushMain]
    /\ cachedConfig = NoConfig
    /\ pc = "off"
    /\ req = NoReq
    /\ payload = NoPayload
    /\ log = << >>
    /\ verified = "none"
    /\ decision = "none"
    /\ channelId = "none"
    /\ sent = << >>
    /\ err = "none"
    /\ response = 0

\* ------------------------------------------- POST /webhook/github, step by step
\* A delivery arrives at the route.
Receive ==
    /\ pc = "idle"
    /\ req' \in Deliveries
    /\ pc' = "headers"
    /\ UNCHANGED << webhookSecret, cachedConfig, configFile, payload, log, verified,
                    decision, channelId, sent, err, response,
                    verifyVars, restVars, routeVars, tokenVars, vaultVars >>

\* The route's callback has returned: the delivery and what was computed for it are
\* dropped; the module state (the cached configuration) stays.
EndRequest ==
    /\ pc = "done"
    /\ pc' = "idle"
    /\ req' = NoReq
    /\ payload' = NoPayload
    /\ log' = << >>
    /\ verified' = "none"
    /\ decision' = "none"
    /\ channelId' = "none"
    /\ sent' = << >>
    /\ err' = "none"
    /\ response' = 0
    /\ UNCHANGED << webhookSecret, cachedConfig, configFile,
                    verifyVars, restVars, routeVars, tokenVars, vaultVars >>

\* The header check without the delivery identifier.
CheckHeaders_IgnoresDeliveryId ==
    /\ pc = "headers"
    /\ log' = Append(log, "headers")
    /\ IF req.signature = << >> \/ ~Truthy(req.event)
       THEN response' = 400 /\ pc' = "done"
       ELSE pc' = "parse" /\ UNCHANGED response
    /\ UNCHANGED << webhookSecret, cachedConfig, configFile, req, payload, verified,
                    decision, channelId, sent, err,
                    verifyVars, restVars, routeVars, tokenVars, vaultVars >>

\* if (!signature || !event || !deliveryId) return res.status(400)
CheckHeaders ==
    /\ pc = "headers"
    /\ log' = Append(log, "headers")
    /\ IF req.signature = << >> \/ ~Truthy(req.event) \/ ~Truthy(req.deliveryId)
       THEN response' = 400 /\ pc' = "done"
       ELSE pc' = "parse" /\ UNCHANGED response
    /\ UNCHANGED << webhookSecret, cachedConfig, configFile, req, payload, verified,
                    decision, channelId, sent, err,
                    verifyVars, restVars, routeVars, tokenVars, vaultVars >>

\* const payload = JSON.parse(rawBody)
ParseBody ==
    /\ pc = "parse"
    /\ log' = Append(log, "parse")
    /\ IF req.rawBody.json
       THEN payload' = JSONparse(req.rawBody) /\ pc' = "handleWebhook" /\ UNCHANGED err
       ELSE err' = "SyntaxError" /\ pc' = "catch" /\ UNCHANGED payload
    /\ UNCHANGED << webhookSecret, cachedConfig, configFile, req, verified, decision,
                    channelId, sent, response,
                    verifyVars, restVars, routeVars, tokenVars, vaultVars >>

\* handleWebhook going on to its switch whatever verifySignature returned.
VerifyDelivery_IgnoresResult ==
    /\ pc = "handleWebhook"
    /\ verified' = verifySignature(req.rawBody, req.signature, webhookSecret)
    /\ log' = Append(log, "verify")
    /\ pc' = "switch"
    /\ UNCHANGED << webhookSecret, cachedConfig, configFile, req, payload, decision,
                    channelId, sent, err, response,
                    verifyVars, restVars, routeVars, tokenVars, vaultVars >>

\* handleWebhook, to its switch: the secret check and verifySignature on the raw body.
VerifyDelivery ==
    /\ pc = "handleWebhook"
    /\ IF webhookSecret = Absent
       THEN /\ err' = "Webhooks not initialized" /\ pc' = "catch"
            /\ UNCHANGED << verified, log >>
       ELSE LET v == verifySignature(req.rawBody, req.signature, webhookSecret)
            IN  /\ verified' = v
                /\ log' = Append(log, "verify")
                /\ IF v = "true" THEN pc' = "switch" /\ UNCHANGED err
                   ELSE /\ pc' = "catch"
                        /\ err' = IF v = "false" THEN "Invalid webhook signature" ELSE v
    /\ UNCHANGED << webhookSecret, cachedConfig, configFile, req, payload, decision,
                    channelId, sent, response,
                    verifyVars, restVars, routeVars, tokenVars, vaultVars >>

\* handleWebhook's switch raising for an event kind it has no case for.
Dispatch_UnknownKindThrows ==
    /\ pc = "switch"
    /\ IF req.event \in EventTypes
       THEN pc' = req.event /\ UNCHANGED << log, err >>
       ELSE pc' = "catch" /\ err' = "Unhandled event" /\ log' = Append(log, "unhandled")
    /\ UNCHANGED << webhookSecret, cachedConfig, configFile, req, payload, verified,
                    decision, channelId, sent, response,
                    verifyVars, restVars, routeVars, tokenVars, vaultVars >>

\* switch (name): the handler of the event kind, or nothing for another kind.
Dispatch ==
    /\ pc = "switch"
    /\ IF req.event \in EventTypes
       THEN pc' = req.event /\ UNCHANGED log
       ELSE pc' = "ok" /\ log' = Append(log, "unhandled")
    /\ UNCHANGED << webhookSecret, cachedConfig, configFile, req, payload, verified,
                    decision, channelId, sent, err, response,
                    verifyVars, restVars, routeVars, tokenVars, vaultVars >>

\* A handler throws: its catch block logs and throws the error again.
HandlerThrows(e) ==
    /\ err' = e
    /\ pc' = "catch"
    /\ log' = Append(log, "handler")
    /\ UNCHANGED << cachedConfig, decision, channelId >>

\* A handler returns at its action filter.
HandlerSkips ==
    /\ pc' = "ok"
    /\ log' = log \o << "handler", "filtered" >>
    /\ UNCHANGED << cachedConfig, decision, channelId, err >>

\* What the four handlers do alike after their filters: shouldHandleEvent (which
\* loads the configuration), getChannelForRepository, the formatter, and then the
\* call of sendToDiscord.  The formatter reads properties of the payload the model
\* does not hold: it returns an embed or throws.
RouteAndFormat(repoName, eventType, branch) ==
    LET lc == loadConfig(cachedConfig, configFile)
    IN  /\ cachedConfig' = lc.config
        /\ IF lc.error # "none"
           THEN /\ err' = lc.error
                /\ pc' = "catch"
                /\ log' = log \o << "handler", "route" >>
                /\ UNCHANGED << decision, channelId >>
           ELSE IF ~shouldHandleEvent(repoName, eventType, branch, lc.config)
           THEN /\ decision' = "false"
                /\ pc' = "ok"
                /\ log' = log \o << "handler", "route" >>
                /\ UNCHANGED << err, channelId >>
           ELSE /\ decision' = "true"
                /\ channelId' = getChannelForRepository(repoName, lc.config)
                /\ log' = log \o << "handler", "route", "channel", "format" >>
                /\ \E formatted \in BOOLEAN :
                      IF formatted
                      THEN pc' = "sendToDiscord" /\ UNCHANGED err
                      ELSE pc' = "catch" /\ err' = "TypeError"

\* async function handlePushEvent(payload), to its await.
handlePushEvent ==
    /\ pc = "push"
    /\ IF payload.repo = "undefined" \/ payload.ref = Undefined
       THEN HandlerThrows("TypeError")
       ELSE RouteAndFormat(payload.repo, "push", RemoveFirst(payload.ref, RefsHeads))
    /\ UNCHANGED << webhookSecret, configFile, req, payload, verified, sent, response,
                    verifyVars, restVars, routeVars, tokenVars, vaultVars >>

\* handlePullRequestEvent without its two action filters.
handlePullRequestEvent_NoActionFilter ==
    /\ pc = "pull_request"
    /\ IF payload.repo = "undefined" \/ payload.head = Undefined
       THEN HandlerThrows("TypeError")
       ELSE RouteAndFormat(payload.repo, "pull_request", payload.head)
    /\ UNCHANGED << webhookSecret, configFile, req, payload, verified, sent, response,
                    verifyVars, restVars, routeVars, tokenVars, vaultVars >>

\* async function handlePullRequestEvent(payload), to its await.
handlePullRequestEvent ==
    /\ pc = "pull_request"
    /\ IF payload.repo = "undefined" \/ payload.head = Undefined
       THEN HandlerThrows("TypeError")
       ELSE IF payload.action = "synchronize" THEN HandlerSkips
       ELSE IF payload.action \notin {"opened", "closed"} THEN HandlerSkips
       ELSE RouteAndFormat(payload.repo, "pull_request", payload.head)
    /\ UNCHANGED << webhookSecret, configFile, req, payload, verified, sent, response,
                    verifyVars, restVars, routeVars, tokenVars, vaultVars >>

\* async function handleIssueEvent(payload), to its await.
handleIssueEvent ==
    /\ pc = "issues"
    /\ IF payload.repo = "undefined"
       THEN HandlerThrows("TypeError")
       ELSE IF payload.action \notin {"opened", "closed"} THEN HandlerSkips
       ELSE RouteAndFormat(payload.repo, "issues", Undefined)
    /\ UNCHANGED << webhookSecret, configFile, req, payload, verified, sent, response,
                    verifyVars, restVars, routeVars, tokenVars, vaultVars >>

\* async function handleReleaseEvent(payload), to its await.
handleReleaseEvent ==
    /\ pc = "release"
    /\ IF payload.repo = "undefined"
       THEN HandlerThrows("TypeError")
       ELSE IF payload.action # "published" THEN HandlerSkips
       ELSE RouteAndFormat(payload.repo, "release", Undefined)
    /\ UNCHANGED << webhookSecret, configFile, req, payload, verified, sent, response,
                    verifyVars, restVars, routeVars, tokenVars, vaultVars >>

\* sendToDiscord, to the end of await client.channels.fetch(channelId): the fetch
\* rejects, or gives no channel, or one that is not text based, or a text channel.
\* (The client is connected before the server listens.)
FetchChannel ==
    /\ pc = "sendToDiscord"
    /\ log' = Append(log, "fetch")
    /\ \E outcome \in {"text", "rejected", "null", "not_text"} :
          IF outcome = "text"
          THEN pc' = "send" /\ UNCHANGED err
          ELSE /\ pc' = "catch"
               /\ err' = CASE outcome = "rejected" -> "DiscordAPIError"
                           [] outcome = "null"     -> "Channel not found"
                           [] OTHER                -> "Channel is not a text channel"
    /\ UNCHANGED << webhookSecret, cachedConfig, configFile, req, payload, verified,
                    decision, channelId, sent, response,
                    verifyVars, restVars, routeVars, tokenVars, vaultVars >>

\* sendToDiscord swallowing a rejected send instead of throwing it again.
SendMessage_SwallowsFailure ==
    /\ pc = "send"
    /\ log' = Append(log, "send")
    /\ \E delivered \in BOOLEAN :
          IF delivered
          THEN sent' = Append(sent, channelId) /\ pc' = "ok" /\ UNCHANGED err
          ELSE pc' = "ok" /\ UNCHANGED << err, sent >>
    /\ UNCHANGED << webhookSecret, cachedConfig, configFile, req, payload, verified,
                    decision, channelId, response,
                    verifyVars, restVars, routeVars, tokenVars, vaultVars >>

\* sendToDiscord, await textChannel.send(content): the message is sent, or the call
\* rejects.
SendMessage ==
    /\ pc = "send"
    /\ log' = Append(log, "send")
    /\ \E delivered \in BOOLEAN :
          IF delivered
          THEN sent' = Append(sent, channelId) /\ pc' = "ok" /\ UNCHANGED err
          ELSE pc' = "catch" /\ err' = "DiscordAPIError" /\ UNCHANGED sent
    /\ UNCHANGED << webhookSecret, cachedConfig, configFile, req, payload, verified,
                    decision, channelId, response,
                    verifyVars, restVars, routeVars, tokenVars, vaultVars >>

\* res.status(200).json({ received: true })
RespondOk ==
    /\ pc = "ok"
    /\ response' = 200
    /\ pc' = "done"
    /\ UNCHANGED << webhookSecret, cachedConfig, configFile, req, payload, log, verified,
                    decision, channelId, sent, err,
                    verifyVars, restVars, routeVars, tokenVars, vaultVars >>

\* The route's catch block logging the error and answering nothing.
RespondError_NoAnswer ==
    /\ pc = "catch"
    /\ pc' = "done"
    /\ UNCHANGED << webhookSecret, cachedConfig, configFile, req, payload, log, verified,
                    decision, channelId, sent, err, response,
                    verifyVars, restVars, routeVars, tokenVars, vaultVars >>

\* The route's catch block: res.status(500)
RespondError ==
    /\ pc = "catch"
    /\ response' = 500
    /\ pc' = "done"
    /\ UNCHANGED << webhookSecret, cachedConfig, configFile, req, payload, log, verified,
                    decision, channelId, sent, err,
                    verifyVars, restVars, routeVars, tokenVars, vaultVars >>

NoCall == [fn |-> "none"]

\* The state of the credential vault in the specifications that do not use it.
TokenIdle == cIn = NoCall /\ cOut = [step |-> "none"]

\* The state of the manual replay in the specifications that do not use it.
ManualIdle ==
    /\ mIn = NoCall
    /\ mpc = "off"
    /\ branchesWithDates = << >>
    /\ toCheck = << >>
    /\ examined = << >>
    /\ branchCandidates = << >>
    /\ resolvedBranch = << >>
    /\ posted = << >>
    /\ manualStatus = 0

\* The state of the OAuth routes in the specifications that do not use them.
OAuthIdle ==
    /\ sessionStore = 0
    /\ handlers = << >>
    /\ issued = 0
    /\ exchanges = << >>

\* The state of storeToken in the specifications that do not call it.
StoreIdle ==
    /\ storer = NoCall
    /\ completed = << >>
    /\ restarted = FALSE

\* The state of the concurrent deliveries in the specifications without them.
SharedIdle == inFlight = << >>

RestIdle == ManualIdle /\ OAuthIdle /\ StoreIdle /\ SharedIdle

VaultIdle ==
    /\ cachedToken = << >>
    /\ redisClient = FALSE
    /\ redisValue = << >>
    /\ tokenFile = << >>
    /\ caller = << >>
    /\ derivations = 0
    /\ cacheWrites = 0

\* ------------------------------------------- calls of verifySignature
\* Every string of at most 2 * DigestBytes + 1 characters over the hex alphabet.
DigestStrings == UNION {[1..n -> HexAlphabet] : n \in 0..(2 * DigestBytes + 1)}


\* Signature headers: sha256=<d> for every d, and the other shapes.
WellFormedHeaders == {Sha256Prefix \o Eq \o d : d \in DigestStrings}

VerifyBodies == {NotJson, JsonBody("org/app", RefsHeads \o Main, "undefined", Undefined),
                 JsonBody("org/other", RefsHeads \o Main, "undefined", Undefined)}

OtherHeaders ==
    {<< >>, Sha256Prefix, Eq, Sha256Prefix \o Eq \o Eq}
    \cup UNION {{Sha1Prefix \o Eq \o HmacHex(s, b),
                 HmacHex(s, b),
                 Sha256Prefix \o Eq \o HmacHex(s, b) \o Eq,
                 Sha256Prefix \o Eq \o HmacHex(s, b) \o Eq \o HmacHex(s, b),
                 Eq \o HmacHex(s, b)} : s \in Secrets, b \in VerifyBodies}

VerifyInit ==
    /\ vIn \in [fn : {"verifySignature"}, payload : VerifyBodies,
                signature : WellFormedHeaders \cup OtherHeaders, secret : Secrets]
    /\ vOut = "pending"

VerifyIdle == vIn = NoCall /\ vOut = "none"

CallVerifySignature ==
    /\ vIn.fn = "verifySignature" /\ vOut = "pending"
    /\ vOut' = verifySignature(vIn.payload, vIn.signature, vIn.secret)
    /\ UNCHANGED << vIn, restVars, routeVars, pipeVars, tokenVars, vaultVars >>

RouteIdle == rIn = NoCall /\ rOut = [done |-> FALSE]

InitVerify == VerifyInit /\ RouteIdle /\ PipeIdle /\ TokenIdle /\ VaultIdle /\ RestIdle

SpecVerify == InitVerify /\ [][CallVerifySignature]_vars


\* ------------------------------------------- calls of the routing policy
\* At most MaxRules rules in a configuration of the routing calls.
MaxRules == 2

SeqsUpTo(S, n) == UNION {[1..k -> S] : k \in 0..n}



\* (branches, excludeBranches) of the rules of the routing calls.
PatternPairs ==
    { << << Star >>, << ReleaseStar >> >>,
      << << Main >>, << >> >>,
      << << Release1DotStar, Develop >>, << Main >> >>,
      << << Star >>, << Star >> >> }

RouteRules ==
    {[name |-> n, events |-> e, branches |-> p[1], excludeBranches |-> p[2],
      channel |-> Absent] :
        n \in RepoNames, e \in {{"push"}, {"pull_request", "issues"}}, p \in PatternPairs}

RouteConfigs ==
    {[default |-> "chDefault", repositories |-> << >>, rules |-> r] :
        r \in SeqsUpTo(RouteRules, MaxRules)}

ChannelRules ==
    {[name |-> n, events |-> {"push"}, branches |-> << Star >>, excludeBranches |-> << >>,
      channel |-> c] :
        n \in RepoNames, c \in {Absent, "", "true", "false", "chRule"}}

\* The discord.channels.repositories maps: an entry, possibly the empty string, for
\* some of the repository names.
ChannelMaps == UNION {[D -> {"", "chMap"}] : D \in SUBSET RepoNames}

ChannelConfigs ==
    {[default |-> "chDefault", repositories |-> m, rules |-> r] :
        m \in ChannelMaps, r \in SeqsUpTo(ChannelRules, MaxRules)}

\* Patterns and candidates of the pattern-matcher calls: every string of at most
\* MaxPatternLen characters over a small alphabet with the metacharacter '.'.
MaxPatternLen == 3
MatchPatterns   == SeqsUpTo({"a", ".", "*"}, MaxPatternLen) \ {<< >>}
MatchCandidates == SeqsUpTo({"a", "b", "."}, MaxPatternLen)

RouteInit ==
    /\ rIn \in [fn : {"shouldHandleEvent"}, cfg : RouteConfigs, repoName : RepoNames,
                 eventType : {"push", "issues", "ping"},
                 branch : BranchNames \cup {Undefined}]
            \cup [fn : {"getChannelForRepository"}, cfg : ChannelConfigs,
                  repoName : RepoNames]
            \cup [fn : {"match"}, b : MatchPatterns, branch : MatchCandidates]
    /\ rOut = [done |-> FALSE]

CallShouldHandleEvent ==
    /\ rIn.fn = "shouldHandleEvent" /\ ~rOut.done
    /\ rOut' = [done |-> TRUE,
                value |-> shouldHandleEvent(rIn.repoName, rIn.eventType, rIn.branch, rIn.cfg)]
    /\ UNCHANGED << rIn, verifyVars, restVars, pipeVars, tokenVars, vaultVars >>

CallGetChannelForRepository ==
    /\ rIn.fn = "getChannelForRepository" /\ ~rOut.done
    /\ rOut' = [done |-> TRUE, value |-> getChannelForRepository(rIn.repoName, rIn.cfg)]
    /\ UNCHANGED << rIn, verifyVars, restVars, pipeVars, tokenVars, vaultVars >>

\* The two pattern callbacks of shouldHandleEvent applied to one pattern and branch.
CallPatternMatch ==
    /\ rIn.fn = "match" /\ ~rOut.done
    /\ rOut' = [done |-> TRUE, excluded |-> excludeMatches(rIn.b, rIn.branch),
                included |-> branchMatches(rIn.b, rIn.branch)]
    /\ UNCHANGED << rIn, verifyVars, restVars, pipeVars, tokenVars, vaultVars >>

RouteNext == CallShouldHandleEvent \/ CallGetChannelForRepository \/ CallPatternMatch

InitRoute == RouteInit /\ VerifyIdle /\ PipeIdle /\ TokenIdle /\ VaultIdle /\ RestIdle

SpecRoute == InitRoute /\ [][RouteNext]_vars

\* ------------------------------------- calls of encryptToken and decryptToken
\* Plaintexts are strings of at most MaxPlainLen code units.
MaxPlainLen == 2

\* 'a', 'é', and the two halves of the surrogate pair of U+1F600.
CodeUnits == {97, 233, 55357, 56832}

Plaintexts == SeqsUpTo(CodeUnits, MaxPlainLen)

KeyOf(c, n) == [i \in 1..n |-> c]

\* Two keys of MinKeyLength characters, a longer one, and keys the check rejects.
GoodKeys == {KeyOf(107, MinKeyLength), KeyOf(106, MinKeyLength), KeyOf(107, MinKeyLength + 1)}
BadKeys  == {<< >>, KeyOf(107, 1), KeyOf(107, MinKeyLength - 1)}

\* What crypto.randomBytes may give.
Salts == {[i \in 1..SALT_LENGTH |-> 0], [i \in 1..SALT_LENGTH |-> (7 * i) % 256]}
Ivs   == {[i \in 1..IV_LENGTH |-> 255], [i \in 1..IV_LENGTH |-> (11 * i) % 256]}

\* What may have happened to a stored blob: nothing; one byte changed; the blob
\* cut to its first bytes; its last characters dropped (the padding and one or two
\* of the characters that hold data).
HeaderLength == SALT_LENGTH + IV_LENGTH + TAG_LENGTH

FlipPositions(n) ==
    {k \in {1, SALT_LENGTH, SALT_LENGTH + 1, SALT_LENGTH + IV_LENGTH,
            SALT_LENGTH + IV_LENGTH + 1, SALT_LENGTH + IV_LENGTH + 4, HeaderLength,
            HeaderLength + 1, n} : k <= n}

CutLengths(n) ==
    {k \in {0, SALT_LENGTH, SALT_LENGTH + IV_LENGTH, SALT_LENGTH + IV_LENGTH + 4,
            SALT_LENGTH + IV_LENGTH + 12, HeaderLength - 1, HeaderLength, n - 1} :
        k >= 0 /\ k < n}

Tampers(blob) ==
    LET n == Len(BufferFromBase64(blob))
    IN  {[kind |-> "none", at |-> 0, by |-> 0]}
        \cup {[kind |-> "flip", at |-> k, by |-> d] : k \in FlipPositions(n), d \in {1, 128}}
        \cup {[kind |-> "cut", at |-> k, by |-> 0] : k \in CutLengths(n)}
        \cup {[kind |-> "chop", at |-> 0, by |-> d] : d \in {1, 2}}

Tampered(blob, t) ==
    LET bytes == BufferFromBase64(blob)
    IN  CASE t.kind = "none" -> blob
          [] t.kind = "flip" ->
                Base64Encode([bytes EXCEPT ![t.at] = (bytes[t.at] + t.by) % 256])
          [] t.kind = "cut"  -> Base64Encode(SubSeq(bytes, 1, t.at))
          [] OTHER           ->
                LET data == SelectSeq(blob, LAMBDA c : c # Base64Pad)
                IN  SubSeq(data, 1, Len(data) - t.by)

TokenInit ==
    /\ cIn \in [fn : {"encryptToken"}, token : Plaintexts, key : GoodKeys \cup BadKeys,
                salt : Salts, iv : Ivs]
    /\ cOut = [step |-> "pending"]

\* encryptToken(token, key)
CallEncryptToken ==
    /\ cIn.fn = "encryptToken" /\ cOut.step = "pending"
    /\ cOut' = [step |-> "encrypted",
                enc  |-> encryptToken(cIn.token, cIn.key, cIn.salt, cIn.iv)]
    /\ UNCHANGED << cIn, verifyVars, restVars, routeVars, pipeVars, vaultVars >>

\* decryptToken(blob, key) on what encryptToken returned, or on what became of it
\* in storage, with the same key or another.
CallDecryptToken ==
    /\ cOut.step = "encrypted" /\ cOut.enc.error = "none"
    /\ \E t \in Tampers(cOut.enc.value), k \in GoodKeys \cup BadKeys, shortTags \in BOOLEAN :
          /\ (t.kind # "none" => k = cIn.key)
          /\ cOut' = [step |-> "decrypted", enc |-> cOut.enc, tamper |-> t, key |-> k,
                      shortTags |-> shortTags,
                      dec |-> decryptToken(Tampered(cOut.enc.value, t), k, shortTags)]
    /\ UNCHANGED << cIn, verifyVars, restVars, routeVars, pipeVars, vaultVars >>

TokenNext == CallEncryptToken \/ CallDecryptToken

InitToken == TokenInit /\ VerifyIdle /\ RouteIdle /\ PipeIdle /\ VaultIdle /\ RestIdle

SpecToken == InitToken /\ [][TokenNext]_vars

\* ------------------------------------------------ getStoredToken (oauth.ts)
\* Calls of getStoredToken run as the event loop interleaves them: a call runs
\* without interruption up to its next await.
NumCallers == 2
MaxCalls   == 2

Callers == 1..NumCallers

\* process.env.ENCRYPTION_KEY, checked at startup to hold at least 32 characters.
VaultKey == KeyOf(107, MinKeyLength)

\* The stored GitHub token and the blobs that storage may hold for it: the one
\* storeToken wrote in an earlier run, and one damaged since.
StoredToken == << 97, 233 >>
GoodBlob    == encryptToken(StoredToken, VaultKey, [i \in 1..SALT_LENGTH |-> 0],
                            [i \in 1..IV_LENGTH |-> 255]).value
CorruptBlob == Tampered(GoodBlob, [kind |-> "flip", at |-> HeaderLength, by |-> 1])

\* << >> stands for "no value": null from Redis, no file on disk, an empty cache.
StoredBlobs == {<< >>, GoodBlob, CorruptBlob}

NotCalling == [pc |-> "idle", result |-> << >>, derived |-> 0, overlapped |-> FALSE,
               calls |-> 0]

VaultInit ==
    /\ cachedToken = << >>
    /\ redisClient \in BOOLEAN
    /\ redisValue \in StoredBlobs
    /\ tokenFile \in StoredBlobs
    /\ (~redisClient => redisValue = << >>)
    /\ caller = [c \in Callers |-> NotCalling]
    /\ derivations = 0
    /\ cacheWrites = 0

InFlight(c) == caller[c].pc \in {"redisGet", "redisSet"}

\* getStoredToken from "Fall back to disk" on, for caller c whose record is rec and
\* after n derivations in the steps before: to its return, or to the await of
\* redis.set.
FallBackToDisk(c, rec, n) ==
    IF tokenFile = << >>
    THEN /\ caller' = [caller EXCEPT ![c] = [rec EXCEPT !.pc = "done", !.result = << >>,
                                                         !.derived = rec.derived + n]]
         /\ derivations' = derivations + n
         /\ UNCHANGED << cachedToken, cacheWrites >>
    ELSE LET d == decryptToken(tokenFile, VaultKey, FALSE)
         IN  /\ derivations' = derivations + n + 1
             /\ IF d.error # "none"
                THEN /\ caller' = [caller EXCEPT ![c] =
                                      [rec EXCEPT !.pc = "done", !.result = << >>,
                                                  !.derived = rec.derived + n + 1]]
                     /\ UNCHANGED << cachedToken, cacheWrites >>
                ELSE /\ cachedToken' = d.value
                     /\ cacheWrites' = cacheWrites + 1
                     /\ caller' = [caller EXCEPT ![c] =
                                      [rec EXCEPT !.pc = IF redisClient THEN "redisSet"
                                                         ELSE "done",
                                                  !.result = d.value,
                                                  !.derived = rec.derived + n + 1]]

\* getStoredToken is called: it returns the cached token, or goes to the await of
\* redis.get, or, without a Redis client, reads the disk at once.
GetStoredTokenStart(c) ==
    /\ caller[c].pc = "idle"
    /\ caller[c].calls < MaxCalls
    /\ LET others == \E o \in Callers \ {c} : InFlight(o)
           rec    == [caller[c] EXCEPT !.calls = caller[c].calls + 1, !.derived = 0,
                                       !.overlapped = others]
       IN  IF cachedToken # << >>
           THEN /\ caller' = [caller EXCEPT ![c] =
                                 [rec EXCEPT !.pc = "done", !.result = cachedToken]]
                /\ UNCHANGED << cachedToken, derivations, cacheWrites >>
           ELSE IF redisClient
           THEN /\ caller' = [o \in Callers |->
                                 IF o = c THEN [rec EXCEPT !.pc = "redisGet"]
                                 ELSE IF InFlight(o)
                                      THEN [caller[o] EXCEPT !.overlapped = TRUE]
                                      ELSE caller[o]]
                /\ UNCHANGED << cachedToken, derivations, cacheWrites >>
           ELSE FallBackToDisk(c, rec, 0)
    /\ UNCHANGED << redisClient, redisValue, tokenFile,
                    verifyVars, restVars, routeVars, pipeVars,
                    tokenVars >>

\* await redis.get(REDIS_TOKEN_KEY) settles: with the stored value, or rejected.
RedisGetSettles(c) ==
    /\ caller[c].pc = "redisGet"
    /\ \E rejected \in BOOLEAN :
          IF rejected \/ redisValue = << >>
          THEN FallBackToDisk(c, caller[c], 0)
          ELSE LET d == decryptToken(redisValue, VaultKey, FALSE)
               IN  IF d.error # "none"
                   THEN FallBackToDisk(c, caller[c], 1)
                   ELSE /\ cachedToken' = d.value
                        /\ cacheWrites' = cacheWrites + 1
                        /\ derivations' = derivations + 1
                        /\ caller' = [caller EXCEPT ![c] =
                                         [caller[c] EXCEPT !.pc = "done",
                                                           !.result = d.value,
                                                           !.derived = caller[c].derived + 1]]
    /\ UNCHANGED << redisClient, redisValue, tokenFile,
                    verifyVars, restVars, routeVars, pipeVars,
                    tokenVars >>

\* await redis.set(REDIS_TOKEN_KEY, encrypted) settles, and the call returns.
RedisSetSettles(c) ==
    /\ caller[c].pc = "redisSet"
    /\ \E rejected \in BOOLEAN :
          redisValue' = IF rejected THEN redisValue ELSE tokenFile
    /\ caller' = [caller EXCEPT ![c] = [caller[c] EXCEPT !.pc = "done"]]
    /\ UNCHANGED << cachedToken, redisClient, tokenFile, derivations, cacheWrites,
                    verifyVars, restVars, routeVars, pipeVars, tokenVars >>

\* The caller has its result and may call again.
GetStoredTokenReturns(c) ==
    /\ caller[c].pc = "done"
    /\ caller' = [caller EXCEPT ![c] = [caller[c] EXCEPT !.pc = "idle"]]
    /\ UNCHANGED << cachedToken, redisClient, redisValue, tokenFile, derivations,
                    cacheWrites, verifyVars, restVars, routeVars, pipeVars, tokenVars >>

VaultNext ==
    \E c \in Callers :
        \/ GetStoredTokenStart(c)
        \/ RedisGetSettles(c)
        \/ RedisSetSettles(c)
        \/ GetStoredTokenReturns(c)

InitVault == VaultInit /\ VerifyIdle /\ RouteIdle /\ PipeIdle /\ TokenIdle /\ RestIdle

SpecVault == InitVault /\ [][VaultNext]_vars

\* ----------------------------------- calls of loadConfig and reloadConfig
\* Files that validateConfig refuses, one for each of its checks.
CfgNoDefault ==
    [default |-> Absent, repositories |-> << >>, rules |-> CfgPushMain.rules]

CfgNoName ==
    [default |-> "chDefault", repositories |-> << >>,
     rules |-> << [name |-> "", events |-> {"push"}, branches |-> << Star >>,
                   excludeBranches |-> << >>, channel |-> Absent] >>]

CfgBadEvent ==
    [default |-> "chDefault", repositories |-> << >>,
     rules |-> << [name |-> "org/app", events |-> {"push", "deploy"},
                   branches |-> << Star >>, excludeBranches |-> << >>,
                   channel |-> Absent] >>]

CfgNoBranches ==
    [default |-> "chDefault", repositories |-> << >>,
     rules |-> << CfgPushMain.rules[1],
                  [name |-> "org/other", events |-> {"push"}, branches |-> << >>,
                   excludeBranches |-> << >>, channel |-> Absent] >>]

\* What config.json may be while the process runs.
ReloadFiles ==
    ConfigFiles
    \cup {[exists |-> TRUE, json |-> TRUE, cfg |-> c] :
             c \in {CfgNoDefault, CfgNoName, CfgBadEvent, CfgNoBranches}}

\* The process has started (start() has called loadConfig once, and gone on if it
\* threw); no webhook request is modelled.
ConfigInit ==
    /\ webhookSecret = "s1"
    /\ configFile \in ReloadFiles
    /\ cachedConfig = loadConfig(NoConfig, configFile).config
    /\ pc = "off"
    /\ req = NoReq
    /\ payload = NoPayload
    /\ log = << >>
    /\ verified = "none"
    /\ decision = "none"
    /\ channelId = "none"
    /\ sent = << >>
    /\ err = "none"
    /\ response = 0
    /\ rIn = NoCall
    /\ rOut = [done |-> FALSE]

ConfigFrame ==
    UNCHANGED << webhookSecret, pc, req, payload, log, verified, decision, channelId,
                 sent, err, response, verifyVars, restVars, tokenVars, vaultVars >>

\* config.json is edited, replaced or removed on disk.
EditConfigFile ==
    /\ pc = "off" /\ configFile \in ReloadFiles
    /\ configFile' \in ReloadFiles \ {configFile}
    /\ UNCHANGED << cachedConfig, rIn, rOut >>
    /\ ConfigFrame

\* loadConfig()
CallLoadConfig ==
    /\ pc = "off" /\ configFile \in ReloadFiles
    /\ LET lc == loadConfig(cachedConfig, configFile)
       IN  /\ cachedConfig' = lc.config
           /\ rIn' = [fn |-> "loadConfig"]
           /\ rOut' = [done |-> TRUE, error |-> lc.error, used |-> lc.config,
                       decision |-> FALSE, channel |-> "none"]
    /\ UNCHANGED configFile
    /\ ConfigFrame

\* reloadConfig(): cachedConfig = null; return loadConfig()
CallReloadConfig ==
    /\ pc = "off" /\ configFile \in ReloadFiles
    /\ LET lc == loadConfig(NoConfig, configFile)
       IN  /\ cachedConfig' = lc.config
           /\ rIn' = [fn |-> "reloadConfig"]
           /\ rOut' = [done |-> TRUE, error |-> lc.error, used |-> lc.config,
                       decision |-> FALSE, channel |-> "none"]
    /\ UNCHANGED configFile
    /\ ConfigFrame

\* shouldHandleEvent(repoName, eventType, branch) and getChannelForRepository(
\* repoName) as the handlers call them, with no config argument: each reads
\* loadConfig().
CallRoutingOnCache ==
    /\ pc = "off" /\ configFile \in ReloadFiles
    /\ \E repoName \in RepoNames, eventType \in {"push", "issues"},
          branch \in {Main, Develop, Undefined} :
          LET lc == loadConfig(cachedConfig, configFile)
          IN  /\ cachedConfig' = lc.config
              /\ rIn' = [fn |-> "route", repoName |-> repoName,
                          eventType |-> eventType, branch |-> branch]
              /\ rOut' = IF lc.error # "none"
                         THEN [done |-> TRUE, error |-> lc.error, used |-> lc.config,
                               decision |-> FALSE, channel |-> "none"]
                         ELSE [done |-> TRUE, error |-> "none", used |-> lc.config,
                               decision |-> shouldHandleEvent(repoName, eventType,
                                                              branch, lc.config),
                               channel |-> getChannelForRepository(repoName, lc.config)]
    /\ UNCHANGED configFile
    /\ ConfigFrame

ConfigNext == EditConfigFile \/ CallLoadConfig \/ CallReloadConfig \/ CallRoutingOnCache

InitConfig == ConfigInit /\ VerifyIdle /\ TokenIdle /\ VaultIdle /\ RestIdle

SpecConfig == InitConfig /\ [][ConfigNext]_vars

\* --------------------------------------- manual commit replay: branch filter
\* The callback of repoConfig.branches.some(...) in postCommit: a pattern that ends
\* with '*' is a prefix, any other pattern is compared as it is.
replayPatternMatches(pattern, name) ==
    IF pattern # << >> /\ pattern[Len(pattern)] = "*"
    THEN LET prefix == SubSeq(pattern, 1, Len(pattern) - 1)
         IN  Len(name) >= Len(prefix) /\ SubSeq(name, 1, Len(prefix)) = prefix
    ELSE name = pattern

\* allGitHubBranches.filter(...): the branches that match one of the patterns.
branchesToCheck(names, patterns) ==
    {n \in names : \E i \in 1..Len(patterns) : replayPatternMatches(patterns[i], n)}

\* .slice(0, 5): only the five most recently updated branches are kept.
MostActive == 5

\* The branches of the repository on GitHub, and the rule's branch patterns.
ReplayBranches ==
    {<< "a" >>, << "a", "a" >>, << "a", "." >>, << "b", "a" >>, << "a", "b", "a" >>,
     << ".", "a" >>}

ReplayPatterns ==
    {<< p >> : p \in MatchPatterns}
    \cup {<< p, q >> : p \in MatchPatterns, q \in {<< "a" >>, << "b", "*" >>}}

ReplayInit ==
    /\ rIn \in [fn : {"postCommit"}, patterns : ReplayPatterns, names : SUBSET ReplayBranches]
    /\ rOut = [done |-> FALSE]

\* postCommit from the filter to the end of the sort and slice: the branches that
\* match, and of those the ones that stay for branch resolution (the commit dates
\* that order them are GitHub's).
CallBranchFilter ==
    /\ rIn.fn = "postCommit" /\ ~rOut.done
    /\ LET matched == branchesToCheck(rIn.names, rIn.patterns)
       IN  \E kept \in SUBSET matched :
              /\ Cardinality(kept) = (IF Cardinality(matched) > MostActive
                                      THEN MostActive ELSE Cardinality(matched))
              /\ rOut' = [done |-> TRUE, matched |-> matched, considered |-> kept]
    /\ UNCHANGED << rIn, verifyVars, restVars, pipeVars, tokenVars, vaultVars >>

InitReplay == ReplayInit /\ VerifyIdle /\ PipeIdle /\ TokenIdle /\ VaultIdle /\ RestIdle

SpecReplay == InitReplay /\ [][CallBranchFilter]_vars

\* ------------------------- manual replay: postCommit, postPullRequest, postIssue
\* listCommits({sha: branchData.name, per_page: 10}): the length of the window.
HistoryWindow == 10

\* Array.prototype.slice(0, n)
Slice(s, n) == SubSeq(s, 1, IF Len(s) < n THEN Len(s) ELSE n)

\* Array.prototype.sort places an element after every element that the comparator
\* does not put behind it (the sort is stable).  InsertSorted(sorted, x, stays) puts
\* x behind the elements of sorted whose position stays marks; these are a prefix.
InsertSorted(sorted, x, stays) ==
    LET p == Cardinality({i \in 1..Len(sorted) : stays[i]})
    IN  SubSeq(sorted, 1, p) \o << x >> \o SubSeq(sorted, p + 1, Len(sorted))

\* branchesWithDates.sort((a, b) => b.date - a.date)
RECURSIVE sortByDate(_)
sortByDate(items) ==
    IF items = << >> THEN << >>
    ELSE LET sorted == sortByDate(SubSeq(items, 1, Len(items) - 1))
             x == items[Len(items)]
         IN  InsertSorted(sorted, x, [i \in 1..Len(sorted) |-> x.date - sorted[i].date <= 0])

\* The sort taking the oldest first.
mostActive_OldestFirst(withDates) ==
    LET sorted == sortByDate(withDates)
    IN  Slice([i \in 1..Len(sorted) |-> sorted[Len(sorted) + 1 - i].name], MostActive)

\* branchesWithDates.sort(...).slice(0, 5).map(item => item.branch)
mostActive(withDates) ==
    LET sorted == sortByDate(withDates)
    IN  Slice([i \in 1..Len(sorted) |-> sorted[i].name], MostActive)

\* The comparator of branchCandidates.sort: negative when a goes first.
candidateOrder(a, b) ==
    IF a.isHead /\ ~b.isHead THEN -1
    ELSE IF ~a.isHead /\ b.isHead THEN 1
    ELSE a.distance - b.distance

\* branchCandidates.sort((a, b) => ...)
RECURSIVE sortCandidates(_)
sortCandidates(cands) ==
    IF cands = << >> THEN << >>
    ELSE LET sorted == sortCandidates(SubSeq(cands, 1, Len(cands) - 1))
             x == cands[Len(cands)]
         IN  InsertSorted(sorted, x,
                          [i \in 1..Len(sorted) |-> candidateOrder(sorted[i], x) <= 0])

\* The selection that takes the last candidate recorded among the best.
selectBranch_LastOfTheBest(cands, default) ==
    IF Len(cands) > 0
    THEN LET sorted == sortCandidates([i \in 1..Len(cands) |-> cands[Len(cands) + 1 - i]])
         IN  sorted[1].name
    ELSE default

\* if (branchCandidates.length > 0) { sort; branch = branchCandidates[0].name }
\* else the default stays.
selectBranch(cands, default) ==
    IF Len(cands) > 0 THEN sortCandidates(cands)[1].name ELSE default

\* What one turn of the candidate loop may meet on GitHub: the tip of the branch is
\* the commit; or listCommits fails; or it gives a window where the commit stands at
\* index (-1: nowhere).
Distances == {0, 2}

HistoryOutcomes ==
    {[tip |-> TRUE, fetch |-> "none", index |-> -1],
     [tip |-> FALSE, fetch |-> "failed", index |-> -1]}
    \cup {[tip |-> FALSE, fetch |-> "ok", index |-> k] : k \in {-1} \cup Distances}

\* The turn recording the position in the window counted from one.
recordCandidate_CountedFromOne(cands, name, o) ==
    IF o.tip THEN Append(cands, [name |-> name, distance |-> 0, isHead |-> TRUE])
    ELSE IF o.fetch = "ok" /\ o.index # -1
    THEN Append(cands, [name |-> name, distance |-> o.index + 1, isHead |-> FALSE])
    ELSE cands

\* One turn of for (const branchData of branchesToCheck): the candidates after it.
recordCandidate(cands, name, o) ==
    IF o.tip THEN Append(cands, [name |-> name, distance |-> 0, isHead |-> TRUE])
    ELSE IF o.fetch = "ok" /\ o.index # -1
    THEN Append(cands, [name |-> name, distance |-> o.index, isHead |-> FALSE])
    ELSE cands

\* The branches listBranches returns, in its order.
BranchLists ==
    {<< >>,
     << << "a" >>, << "b", "a" >> >>,
     << Main, << "a" >>, << "a", "a" >>, << "b", "a" >>, << "a", "b" >>, << "b" >> >>}

\* new Date(...).getTime() of the tip of a branch; 0 is also what a failed fetch gives.
Stamps == {0, 1}

ManualFiles ==
    {[exists |-> FALSE, json |-> FALSE, cfg |-> CfgPushMain],
     [exists |-> TRUE, json |-> TRUE, cfg |-> CfgPushMain],
     [exists |-> TRUE, json |-> TRUE, cfg |-> CfgTwoRules]}

ManualCalls ==
    [fn : {"postCommit"}, repoName : {"org/app", "org/none"}, names : BranchLists]
    \cup [fn : {"postPullRequest", "postIssue"}, repoName : {"org/app", "org/other"},
          names : {<< >>}]

\* The process has started and one of the manual endpoints has been requested.
ManualInit ==
    /\ webhookSecret = "s1"
    /\ configFile \in ManualFiles
    /\ cachedConfig = loadConfig(NoConfig, configFile).config
    /\ pc = "off"
    /\ req = NoReq
    /\ payload = NoPayload
    /\ log = << >>
    /\ verified = "none"
    /\ decision = "none"
    /\ channelId = "none"
    /\ sent = << >>
    /\ err = "none"
    /\ response = 0
    /\ mIn \in ManualCalls
    /\ mpc = "start"
    /\ branchesWithDates = << >>
    /\ toCheck = << >>
    /\ examined = << >>
    /\ branchCandidates = << >>
    /\ resolvedBranch = << >>
    /\ posted = << >>
    /\ manualStatus = 0

ManualFrame ==
    UNCHANGED << webhookSecret, configFile, pc, req, payload, log, verified, decision,
                 channelId, sent, err, response, verifyVars, routeVars, tokenVars,
                 vaultVars, oauthVars, storeVars, sharedVars >>

\* The name of the default branch as a branch name.
MainBranch == Main

\* postCommit from its start to listBranches: getAuthenticatedOctokit, getCommit and
\* repos.get (any of them may throw, which ends the call), then loadConfig and the
\* lookup of the repository's rule.  An error of loadConfig is caught by the inner
\* try; without a rule the function returns.
postCommitStart ==
    /\ mpc = "start" /\ mIn.fn = "postCommit"
    /\ \E fetched \in BOOLEAN :
          IF ~fetched
          THEN /\ mpc' = "threw"
               /\ UNCHANGED << cachedConfig, resolvedBranch >>
          ELSE LET lc == loadConfig(cachedConfig, configFile)
               IN  /\ cachedConfig' = lc.config
                   /\ resolvedBranch' = MainBranch
                   /\ mpc' = IF lc.error # "none" THEN "stats"
                             ELSE IF FindRule(lc.config, mIn.repoName) = 0 THEN "returned"
                             ELSE "listBranches"
    /\ UNCHANGED << mIn, branchesWithDates, toCheck, examined, branchCandidates, posted,
                    manualStatus >>
    /\ ManualFrame

\* await listBranches settles: an error is caught by the inner try; otherwise the
\* branches are filtered and the tip of each is asked for.
listBranchesSettles ==
    /\ mpc = "listBranches"
    /\ \E listed \in BOOLEAN :
          IF ~listed
          THEN /\ mpc' = "stats"
               /\ UNCHANGED toCheck
          ELSE LET patterns == cachedConfig.rules[FindRule(cachedConfig, mIn.repoName)].branches
                   all == mIn.names
               IN  /\ toCheck' = SelectSeq(all, LAMBDA n : n \in branchesToCheck({n}, patterns))
                   /\ mpc' = "dates"
    /\ UNCHANGED << mIn, cachedConfig, branchesWithDates, examined, branchCandidates,
                    resolvedBranch, posted, manualStatus >>
    /\ ManualFrame

\* await Promise.all(...) settles (a getCommit that fails gives date 0), then the
\* sort and the slice; with no branch left the function returns.
datesSettle ==
    /\ mpc = "dates"
    /\ \E date \in [1..Len(toCheck) -> Stamps] :
          LET withDates == [i \in 1..Len(toCheck) |-> [name |-> toCheck[i], date |-> date[i]]]
          IN  /\ branchesWithDates' = sortByDate(withDates)
              /\ toCheck' = mostActive(withDates)
              /\ mpc' = IF mostActive(withDates) = << >> THEN "returned" ELSE "loop"
    /\ UNCHANGED << mIn, cachedConfig, examined, branchCandidates, resolvedBranch, posted,
                    manualStatus >>
    /\ ManualFrame

\* The loop turn that lets a failed listCommits end the branch detection.
ExamineBranch_FailureAborts ==
    /\ mpc = "loop" /\ Len(examined) < Len(toCheck)
    /\ LET name == toCheck[Len(examined) + 1]
       IN  \E o \in HistoryOutcomes :
              /\ examined' = Append(examined, [name |-> name, tip |-> o.tip,
                                               fetch |-> o.fetch, index |-> o.index])
              /\ branchCandidates' = recordCandidate(branchCandidates, name, o)
              /\ mpc' = IF o.fetch = "failed" THEN "stats" ELSE "loop"
    /\ UNCHANGED << mIn, cachedConfig, branchesWithDates, toCheck, resolvedBranch, posted,
                    manualStatus >>
    /\ ManualFrame

\* One turn of the candidate loop: the tip is compared, and when it is not the
\* commit the history window is fetched; a failure of the fetch is caught in the turn.
ExamineBranch ==
    /\ mpc = "loop" /\ Len(examined) < Len(toCheck)
    /\ LET name == toCheck[Len(examined) + 1]
       IN  \E o \in HistoryOutcomes :
              /\ examined' = Append(examined, [name |-> name, tip |-> o.tip,
                                               fetch |-> o.fetch, index |-> o.index])
              /\ branchCandidates' = recordCandidate(branchCandidates, name, o)
    /\ UNCHANGED << mIn, mpc, cachedConfig, branchesWithDates, toCheck, resolvedBranch,
                    posted, manualStatus >>
    /\ ManualFrame

\* After the loop: the candidates are sorted and the first gives the branch.
SelectCandidate ==
    /\ mpc = "loop" /\ Len(examined) = Len(toCheck)
    /\ resolvedBranch' = selectBranch(branchCandidates, resolvedBranch)
    /\ branchCandidates' = sortCandidates(branchCandidates)
    /\ mpc' = "stats"
    /\ UNCHANGED << mIn, cachedConfig, branchesWithDates, toCheck, examined, posted,
                    manualStatus >>
    /\ ManualFrame

\* await getCommit for the statistics settles (its failure is only logged), the push
\* event is built with ref refs/heads/<branch>, and getChannelForRepository is called:
\* its loadConfig may throw.
statsSettle ==
    /\ mpc = "stats"
    /\ LET lc == loadConfig(cachedConfig, configFile)
       IN  /\ cachedConfig' = lc.config
           /\ mpc' = IF lc.error # "none" THEN "threw" ELSE "send"
    /\ UNCHANGED << mIn, branchesWithDates, toCheck, examined, branchCandidates,
                    resolvedBranch, posted, manualStatus >>
    /\ ManualFrame

\* postPullRequest and postIssue from their start to sendToDiscord: the two fetches
\* (either may throw) and getChannelForRepository.
postOtherStart ==
    /\ mpc = "start" /\ mIn.fn \in {"postPullRequest", "postIssue"}
    /\ \E fetched \in BOOLEAN :
          IF ~fetched
          THEN /\ mpc' = "threw"
               /\ UNCHANGED cachedConfig
          ELSE LET lc == loadConfig(cachedConfig, configFile)
               IN  /\ cachedConfig' = lc.config
                   /\ mpc' = IF lc.error # "none" THEN "threw" ELSE "send"
    /\ UNCHANGED << mIn, branchesWithDates, toCheck, examined, branchCandidates,
                    resolvedBranch, posted, manualStatus >>
    /\ ManualFrame

\* await sendToDiscord(channelId, {embeds: [embed]}) settles.
sendSettles ==
    /\ mpc = "send"
    /\ \E delivered \in BOOLEAN :
          IF delivered
          THEN /\ posted' = Append(posted,
                       [channel |-> getChannelForRepository(mIn.repoName, cachedConfig),
                        branch |-> resolvedBranch])
               /\ mpc' = "returned"
          ELSE /\ mpc' = "threw"
               /\ UNCHANGED posted
    /\ UNCHANGED << mIn, cachedConfig, branchesWithDates, toCheck, examined,
                    branchCandidates, resolvedBranch, manualStatus >>
    /\ ManualFrame

\* app.post('/api/manual/...'): res.json({success: true}) when the function returned,
\* res.status(500) when it threw.
RespondManual ==
    /\ mpc \in {"returned", "threw"} /\ manualStatus = 0
    /\ manualStatus' = IF mpc = "returned" THEN 200 ELSE 500
    /\ UNCHANGED << mIn, mpc, cachedConfig, branchesWithDates, toCheck, examined,
                    branchCandidates, resolvedBranch, posted >>
    /\ ManualFrame

ManualNext ==
    \/ postCommitStart
    \/ listBranchesSettles
    \/ datesSettle
    \/ ExamineBranch
    \/ SelectCandidate
    \/ statsSettle
    \/ postOtherStart
    \/ sendSettles
    \/ RespondManual

InitManual ==
    /\ ManualInit /\ VerifyIdle /\ RouteIdle /\ TokenIdle /\ VaultIdle
    /\ OAuthIdle /\ StoreIdle /\ SharedIdle

SpecManual == InitManual /\ [][ManualNext]_vars

\* ------------------------------ GET /auth/github and GET /auth/github/callback
\* The requests of one browser session that the model follows, and the state values
\* crypto.randomBytes(32) gives, numbered as they are generated; 0 stands for no
\* state (an absent query parameter, an absent session property).
NumRequests == 3
MaxStates == 2

Requests == 1..NumRequests

NotArrived ==
    [pc |-> "idle", kind |-> "none", state |-> 0, session |-> 0, status |-> 0,
     saved |-> FALSE, store |-> "none"]

OAuthInit ==
    /\ sessionStore = 0
    /\ handlers = [r \in Requests |-> NotArrived]
    /\ issued = 0
    /\ exchanges = << >>

OAuthFrame ==
    UNCHANGED << verifyVars, routeVars, pipeVars, tokenVars, vaultVars, manualVars,
                 storeVars, sharedVars >>

\* router.get('/auth/github'): the session is loaded from the store, a new state is
\* put on it, and req.session.save is called before the redirect.  When
\* getAuthorizationUrl throws (no GITHUB_CLIENT_ID) the answer is 500 and the
\* session is saved as the response ends.
StartAuthorization(r) ==
    /\ handlers[r].pc = "idle" /\ issued < MaxStates
    /\ \E clientId \in BOOLEAN :
          handlers' = [handlers EXCEPT ![r] =
                          [pc |-> "saving", kind |-> "start", state |-> 0,
                           session |-> issued + 1,
                           status |-> IF clientId THEN 302 ELSE 500,
                           saved |-> FALSE, store |-> "none"]]
    /\ issued' = issued + 1
    /\ UNCHANGED << sessionStore, exchanges >>
    /\ OAuthFrame

\* router.get('/auth/github/callback') up to the await: the session is loaded from
\* the store; a state that is absent or differs from the session's is answered 400;
\* otherwise oauthState is deleted from the request's session, a missing code is
\* answered 400 and else exchangeCodeForToken is called.
CallbackArrives(r) ==
    /\ handlers[r].pc = "idle"
    /\ \E state \in 0..MaxStates, code \in BOOLEAN :
          LET sessionState == sessionStore
          IN  IF state = 0 \/ state # sessionState
              THEN /\ handlers' = [handlers EXCEPT ![r] =
                          [pc |-> "done", kind |-> "callback", state |-> state,
                           session |-> sessionState, status |-> 400,
                           saved |-> FALSE, store |-> "none"]]
                   /\ UNCHANGED exchanges
              ELSE IF ~code
              THEN /\ handlers' = [handlers EXCEPT ![r] =
                          [pc |-> "saving", kind |-> "callback", state |-> state,
                           session |-> 0, status |-> 400, saved |-> FALSE, store |-> "none"]]
                   /\ UNCHANGED exchanges
              ELSE /\ handlers' = [handlers EXCEPT ![r] =
                          [pc |-> "exchanging", kind |-> "callback", state |-> state,
                           session |-> 0, status |-> 0, saved |-> FALSE, store |-> "none"]]
                   /\ exchanges' = Append(exchanges, [request |-> r, state |-> state,
                                                      stored |-> sessionState])
    /\ UNCHANGED << sessionStore, issued >>
    /\ OAuthFrame

\* What the call storeToken(token) has come to when it hands back its promise:
\* "stored" (no Redis client, the file was written), "failed" (the promise is
\* rejected: no key, encryptToken or writeFileSync threw), "pending" (it awaits
\* redis.set).
StoreCallOutcomes == {"stored", "failed", "pending"}

\* await exchangeCodeForToken(code) settles.  When it gave a token, storeToken(token)
\* is called and its promise is dropped, and the page "Setup Complete" is sent; when
\* it threw, the error page is sent.
ExchangeSettles(r) ==
    /\ handlers[r].pc = "exchanging"
    /\ \E token \in BOOLEAN, outcome \in StoreCallOutcomes :
          handlers' = [handlers EXCEPT
                          ![r].pc = "saving",
                          ![r].status = IF token THEN 200 ELSE 500,
                          ![r].store = IF token THEN outcome ELSE "none"]
    /\ UNCHANGED << sessionStore, issued, exchanges >>
    /\ OAuthFrame

\* await redis.set of the storeToken the callback called settles: the blob is in
\* Redis, or, that write rejected, on the disk, or writeFileSync threw and the
\* promise nobody holds is rejected.
StoreSettles(r) ==
    /\ handlers[r].store = "pending"
    /\ \E persisted \in BOOLEAN :
          handlers' = [handlers EXCEPT
                          ![r].store = IF persisted THEN "stored" ELSE "failed"]
    /\ UNCHANGED << sessionStore, issued, exchanges >>
    /\ OAuthFrame

\* The session of the request is written to the store: by req.session.save in
\* /auth/github, by express-session as the response ends elsewhere (the session was
\* modified).  A save that fails in /auth/github is answered 500.
SessionSaved(r) ==
    /\ handlers[r].pc = "saving"
    /\ \E saved \in BOOLEAN :
          IF saved
          THEN /\ sessionStore' = handlers[r].session
               /\ handlers' = [handlers EXCEPT ![r].pc = "done", ![r].saved = TRUE]
          ELSE /\ UNCHANGED sessionStore
               /\ handlers' = [handlers EXCEPT ![r].pc = "done",
                                   ![r].status = IF handlers[r].kind = "start"
                                                 THEN 500 ELSE handlers[r].status]
    /\ UNCHANGED << issued, exchanges >>
    /\ OAuthFrame

OAuthNext ==
    \E r \in Requests :
        \/ StartAuthorization(r)
        \/ CallbackArrives(r)
        \/ ExchangeSettles(r)
        \/ StoreSettles(r)
        \/ SessionSaved(r)

InitOAuth ==
    /\ OAuthInit /\ VerifyIdle /\ RouteIdle /\ PipeIdle /\ TokenIdle /\ VaultIdle
    /\ ManualIdle /\ StoreIdle /\ SharedIdle

SpecOAuth == InitOAuth /\ [][OAuthNext]_vars

\* ------------------------- storeToken, getStoredToken, hasStoredToken (oauth.ts)
\* The token now stored by storeToken, and the blob encryptToken makes of it.
NewToken == << 98 >>
NewBlob  == encryptToken(NewToken, VaultKey, [i \in 1..SALT_LENGTH |-> 1],
                         [i \in 1..IV_LENGTH |-> 7]).value

\* export function hasStoredToken(): the cache, then fs.existsSync(TOKEN_FILE).
hasStoredToken(cache, file) ==
    IF cache # << >> THEN TRUE
    ELSE IF file # << >> THEN TRUE
    ELSE FALSE

NotLookingUp ==
    [pc |-> "idle", result |-> << >>, encrypted |-> << >>, has |-> FALSE,
     alone |-> TRUE, beganAfter |-> FALSE, afterStore |-> FALSE]

NotStoring == [pc |-> "idle", alone |-> TRUE, before |-> << >>, cause |-> "none"]

\* The process has started with an empty cache; Redis and the disk may hold the blob
\* of an older token, damaged or not, whether or not this process has a Redis client.
StoreInit ==
    /\ cachedToken = << >>
    /\ redisClient \in BOOLEAN
    /\ redisValue \in StoredBlobs
    /\ tokenFile \in StoredBlobs
    /\ caller = [c \in Callers |-> NotLookingUp]
    /\ derivations = 0
    /\ cacheWrites = 0
    /\ storer = NotStoring
    /\ completed = << >>
    /\ restarted = FALSE

StoreFrame ==
    UNCHANGED << derivations, cacheWrites, verifyVars, routeVars, pipeVars, tokenVars,
                 manualVars, oauthVars, sharedVars >>

LookingUp(c) == caller[c].pc \in {"redisGet", "redisSet"}

\* The record of a call of getStoredToken that returns result.
Returning(rec, result) ==
    [rec EXCEPT !.pc = "done", !.result = result, !.afterStore = (completed # << >>)]

\* getStoredToken from "Fall back to disk" on, for the call of record rec: to its
\* return, or to the await of redis.set.  An error of decryptToken is caught by the
\* outer try, which returns null.
ReadDisk(c, rec) ==
    IF tokenFile = << >>
    THEN /\ caller' = [caller EXCEPT ![c] = Returning(rec, << >>)]
         /\ UNCHANGED cachedToken
    ELSE LET d == decryptToken(tokenFile, VaultKey, FALSE)
         IN  IF d.error # "none"
             THEN /\ caller' = [caller EXCEPT ![c] = Returning(rec, << >>)]
                  /\ UNCHANGED cachedToken
             ELSE /\ cachedToken' = d.value
                  /\ caller' = [caller EXCEPT ![c] =
                                   IF redisClient
                                   THEN [rec EXCEPT !.pc = "redisSet", !.result = d.value,
                                                    !.encrypted = tokenFile]
                                   ELSE Returning(rec, d.value)]

\* getStoredToken is called: it returns the cached token, or goes to the await of
\* redis.get, or, without a Redis client, reads the disk at once.  The record keeps
\* what hasStoredToken gives in the state of the call.
LookupStart(c) ==
    /\ caller[c].pc = "idle"
    /\ LET rec == [NotLookingUp EXCEPT
                      !.has = hasStoredToken(cachedToken, tokenFile),
                      !.alone = /\ \A o \in Callers \ {c} : ~LookingUp(o)
                                /\ storer.pc # "redisSet",
                      !.beganAfter = (completed # << >>)]
       IN  IF cachedToken # << >>
           THEN /\ caller' = [caller EXCEPT ![c] = Returning(rec, cachedToken)]
                /\ UNCHANGED << cachedToken, storer >>
           ELSE IF redisClient
           THEN /\ caller' = [o \in Callers |->
                                 IF o = c THEN [rec EXCEPT !.pc = "redisGet"]
                                 ELSE IF LookingUp(o)
                                      THEN [caller[o] EXCEPT !.alone = FALSE]
                                      ELSE caller[o]]
                /\ storer' = IF storer.pc = "redisSet"
                             THEN [storer EXCEPT !.alone = FALSE] ELSE storer
                /\ UNCHANGED cachedToken
           ELSE /\ ReadDisk(c, rec)
                /\ UNCHANGED storer
    /\ UNCHANGED << redisClient, redisValue, tokenFile, completed, restarted >>
    /\ StoreFrame

\* await redis.get(REDIS_TOKEN_KEY) settles: rejected, or with null, or with a blob;
\* a blob that does not decrypt sends the call to the disk like a rejection.
LookupRedisGet(c) ==
    /\ caller[c].pc = "redisGet"
    /\ \E rejected \in BOOLEAN :
          IF rejected \/ redisValue = << >>
          THEN ReadDisk(c, caller[c])
          ELSE LET d == decryptToken(redisValue, VaultKey, FALSE)
               IN  IF d.error # "none"
                   THEN ReadDisk(c, caller[c])
                   ELSE /\ cachedToken' = d.value
                        /\ caller' = [caller EXCEPT ![c] = Returning(caller[c], d.value)]
    /\ UNCHANGED << redisClient, redisValue, tokenFile, storer, completed, restarted >>
    /\ StoreFrame

\* await redis.set(REDIS_TOKEN_KEY, encrypted) of getStoredToken settles, with the
\* blob the call read from the disk, and the call returns.
LookupRedisSet(c) ==
    /\ caller[c].pc = "redisSet"
    /\ \E rejected \in BOOLEAN :
          redisValue' = IF rejected THEN redisValue ELSE caller[c].encrypted
    /\ caller' = [caller EXCEPT ![c] = Returning(caller[c], caller[c].result)]
    /\ UNCHANGED << cachedToken, redisClient, tokenFile, storer, completed, restarted >>
    /\ StoreFrame

\* The caller has its result and may call again.
LookupReturns(c) ==
    /\ caller[c].pc = "done"
    /\ caller' = [caller EXCEPT ![c] = NotLookingUp]
    /\ UNCHANGED << cachedToken, redisClient, redisValue, tokenFile, storer, completed,
                    restarted >>
    /\ StoreFrame

\* process.env.ENCRYPTION_KEY as a call of storeToken may read it: the key, a key
\* of 31 characters, none.
StoreKeys == {VaultKey, KeyOf(107, MinKeyLength - 1), << >>}

\* storeToken(NewToken) is called.  Without a key it throws; encryptToken throws on
\* a short key; then the token is cached, and with a Redis client the call awaits
\* redis.set, while without one it writes the file, which may throw.
storeTokenStart ==
    /\ storer.pc = "idle"
    /\ LET quiet == \A c \in Callers : ~LookingUp(c)
           call  == [pc |-> "idle", alone |-> quiet, before |-> cachedToken,
                     cause |-> "none"]
       IN  \E encryptionKey \in StoreKeys, written \in BOOLEAN :
              IF encryptionKey = << >>
                 \/ encryptToken(NewToken, encryptionKey, [i \in 1..SALT_LENGTH |-> 1],
                                 [i \in 1..IV_LENGTH |-> 7]).error # "none"
              THEN /\ storer' = [call EXCEPT !.pc = "failed", !.cause = "key"]
                   /\ UNCHANGED << cachedToken, tokenFile, completed >>
              ELSE /\ cachedToken' = NewToken
                   /\ IF redisClient
                      THEN /\ storer' = [call EXCEPT !.pc = "redisSet"]
                           /\ UNCHANGED << tokenFile, completed >>
                      ELSE IF written
                      THEN /\ storer' = [call EXCEPT !.pc = "done"]
                           /\ tokenFile' = NewBlob
                           /\ completed' = NewToken
                      ELSE /\ storer' = [call EXCEPT !.pc = "failed", !.cause = "write"]
                           /\ UNCHANGED << tokenFile, completed >>
    /\ caller' = [c \in Callers |->
                     IF LookingUp(c) THEN [caller[c] EXCEPT !.alone = FALSE]
                     ELSE caller[c]]
    /\ UNCHANGED << redisClient, redisValue, restarted >>
    /\ StoreFrame

\* await redis.set(REDIS_TOKEN_KEY, encrypted) of storeToken settles: when it is
\* rejected the blob is written to the file instead, and when that write throws
\* too storeToken throws; otherwise it returns.
storeTokenRedisSet ==
    /\ storer.pc = "redisSet"
    /\ \E rejected \in BOOLEAN, written \in BOOLEAN :
          IF ~rejected
          THEN /\ redisValue' = NewBlob
               /\ storer' = [storer EXCEPT !.pc = "done"]
               /\ completed' = NewToken
               /\ UNCHANGED tokenFile
          ELSE IF written
          THEN /\ tokenFile' = NewBlob
               /\ storer' = [storer EXCEPT !.pc = "done"]
               /\ completed' = NewToken
               /\ UNCHANGED redisValue
          ELSE /\ storer' = [storer EXCEPT !.pc = "failed", !.cause = "write"]
               /\ UNCHANGED << redisValue, tokenFile, completed >>
    /\ UNCHANGED << cachedToken, redisClient, caller, restarted >>
    /\ StoreFrame

\* The process is restarted after the store: the cache is empty again, no call is
\* in progress, Redis and the disk hold what they held, and the new process may or
\* may not have a Redis client.
ProcessRestart ==
    /\ storer.pc = "done" /\ ~restarted
    /\ \A c \in Callers : ~LookingUp(c)
    /\ restarted' = TRUE
    /\ cachedToken' = << >>
    /\ redisClient' \in BOOLEAN
    /\ caller' = [c \in Callers |-> NotLookingUp]
    /\ UNCHANGED << redisValue, tokenFile, storer, completed >>
    /\ StoreFrame

StoreNext ==
    \/ \E c \in Callers :
          \/ LookupStart(c)
          \/ LookupRedisGet(c)
          \/ LookupRedisSet(c)
          \/ LookupReturns(c)
    \/ storeTokenStart
    \/ storeTokenRedisSet
    \/ ProcessRestart

InitStore ==
    /\ StoreInit /\ VerifyIdle /\ RouteIdle /\ PipeIdle /\ TokenIdle
    /\ ManualIdle /\ OAuthIdle /\ SharedIdle

SpecStore == InitStore /\ [][StoreNext]_vars

\* ------------------------------- manual commit replay: the commit comparisons
\* The length of a full commit SHA (40 hexadecimal digits on GitHub).
ShaLength == 3

\* The commits of the repository, by their full SHA.
Shas ==
    {[i \in 1..ShaLength |-> "5"], [i \in 1..ShaLength |-> "d"],
     [i \in 1..ShaLength |-> IF i = 1 THEN "5" ELSE "d"]}

StartsWith(sha, prefix) ==
    Len(prefix) <= Len(sha) /\ SubSeq(sha, 1, Len(prefix)) = prefix

\* What a caller may give for a commit: its full SHA, or a shorter prefix of it
\* that no other commit of the repository starts with, which GitHub's getCommit
\* resolves to the commit as well.
IdentifiersOf(sha) ==
    {id \in {SubSeq(sha, 1, n) : n \in 1..ShaLength} :
        \A other \in Shas \ {sha} : ~StartsWith(other, id)}

\* branchCommits.findIndex(c => c.sha === commitSha)
findIndex(branchCommits, commitSha) ==
    IF \E i \in 1..Len(branchCommits) : branchCommits[i] = commitSha
    THEN (CHOOSE i \in 1..Len(branchCommits) :
             /\ branchCommits[i] = commitSha
             /\ \A j \in 1..(i - 1) : branchCommits[j] # commitSha) - 1
    ELSE -1

\* One turn of the candidate loop on a branch whose listCommits answers: the
\* comparison of the tip, branchData.commit.sha === commitSha, and else the place of
\* commitSha among the recent commits.
compareWithBranch(branchData, commitSha) ==
    IF branchData.sha = commitSha
    THEN [tip |-> TRUE, fetch |-> "none", index |-> -1]
    ELSE [tip |-> FALSE, fetch |-> "ok",
          index |-> findIndex(Slice(branchData.commits, HistoryWindow), commitSha)]

\* for (const branchData of branchesToCheck): the candidates after the loop.
RECURSIVE candidateLoop(_, _, _)
candidateLoop(branches, commitSha, cands) ==
    IF branches = << >> THEN cands
    ELSE candidateLoop(Tail(branches), commitSha,
                       recordCandidate(cands, Head(branches).name,
                                       compareWithBranch(Head(branches), commitSha)))

\* A branch of the repository: its tip, and its recent commits from the tip back.
BranchesOn(name) ==
    {[name |-> name, sha |-> tip, commits |-> << tip >> \o older] :
        tip \in Shas, older \in {<< >>} \cup {<< s >> : s \in Shas}}

\* The lists of branches the loop goes through.
ResolveBranchLists ==
    {<< b >> : b \in BranchesOn(Develop)}
    \cup {<< b, c >> : b \in BranchesOn(Develop), c \in BranchesOn(Release10)}

ResolveInit ==
    /\ rIn \in UNION {[fn : {"resolveBranch"}, commit : {sha},
                        commitSha : IdentifiersOf(sha), branches : ResolveBranchLists] :
                          sha \in Shas}
    /\ rOut = [done |-> FALSE]

\* postCommit from the candidate loop to the selection of the branch, for the
\* identifier the caller gave.
CallResolveBranch ==
    /\ rIn.fn = "resolveBranch" /\ ~rOut.done
    /\ LET cands == candidateLoop(rIn.branches, rIn.commitSha, << >>)
       IN  rOut' = [done |-> TRUE, candidates |-> cands,
                    branch |-> selectBranch(cands, MainBranch)]
    /\ UNCHANGED << rIn, verifyVars, restVars, pipeVars, tokenVars, vaultVars >>

InitResolve == ResolveInit /\ VerifyIdle /\ PipeIdle /\ TokenIdle /\ VaultIdle /\ RestIdle

SpecResolve == InitResolve /\ [][CallResolveBranch]_vars

\* ------------------------------ concurrent deliveries and configuration reloads
\* How many deliveries are handled at the same time.
NumDeliveries == 2

DeliveryIds == 1..NumDeliveries

\* What the deliveries are about: the repository, the event and its branch.
SharedEvents ==
    {[repoName |-> "org/app", eventType |-> "push", branch |-> Main],
     [repoName |-> "org/other", eventType |-> "issues", branch |-> Undefined]}

NotDelivered ==
    [pc |-> "idle", decidedOn |-> NoConfig, lookedUpOn |-> NoConfig,
     decision |-> FALSE, channel |-> "none"]

\* The process has started (start() has called loadConfig once) and no delivery has
\* arrived.
SharedInit ==
    /\ ConfigInit
    /\ inFlight = [d \in DeliveryIds |-> NotDelivered]

\* The configuration getChannelForRepository(repoName) reads in a handler, after
\* shouldHandleEvent left the cache as it is given: gone through reloadConfig().
lookupSnapshot_Reloads(cached, file) == loadConfig(NoConfig, file)

\* The configuration getChannelForRepository(repoName) reads in a handler, after
\* shouldHandleEvent left the cache as it is given: const cfg = config ||
\* loadConfig().
lookupSnapshot(cached, file) == loadConfig(cached, file)

\* A delivery is handled up to its first await: the route's callback, handleWebhook
\* and the handler run without a break to the await of sendToDiscord.  The handler
\* calls shouldHandleEvent, which reads loadConfig(), and when that gives true
\* getChannelForRepository, which reads loadConfig() again.
HandleDelivery(d) ==
    /\ pc = "off" /\ inFlight[d].pc = "idle"
    /\ \E e \in SharedEvents :
          LET first == loadConfig(cachedConfig, configFile)
          IN  IF first.error # "none"
              THEN /\ cachedConfig' = first.config
                   /\ inFlight' = [inFlight EXCEPT ![d].pc = "done"]
              ELSE IF ~shouldHandleEvent(e.repoName, e.eventType, e.branch, first.config)
              THEN /\ cachedConfig' = first.config
                   /\ inFlight' = [inFlight EXCEPT ![d].pc = "done",
                                                   ![d].decidedOn = first.config]
              ELSE LET second == lookupSnapshot(first.config, configFile)
                   IN  /\ cachedConfig' = second.config
                       /\ inFlight' = [inFlight EXCEPT ![d] =
                             IF second.error # "none"
                             THEN [NotDelivered EXCEPT !.pc = "done",
                                                       !.decidedOn = first.config]
                             ELSE [pc |-> "sending", decidedOn |-> first.config,
                                   lookedUpOn |-> second.config, decision |-> TRUE,
                                   channel |-> getChannelForRepository(e.repoName,
                                                                       second.config)]]
    /\ UNCHANGED << webhookSecret, configFile, pc, req, payload, log, verified,
                    decision, channelId, sent, err, response, rIn, rOut >>
    /\ UNCHANGED << verifyVars, tokenVars, vaultVars, manualVars, oauthVars, storeVars >>

\* await sendToDiscord(channelId, ...) of the delivery settles and the handler ends.
DeliverySent(d) ==
    /\ pc = "off" /\ inFlight[d].pc = "sending"
    /\ inFlight' = [inFlight EXCEPT ![d].pc = "done"]
    /\ UNCHANGED << cachedConfig, configFile, webhookSecret, pc, req, payload, log,
                    verified, decision, channelId, sent, err, response, rIn, rOut >>
    /\ UNCHANGED << verifyVars, tokenVars, vaultVars, manualVars, oauthVars, storeVars >>

SharedNext ==
    \/ \E d \in DeliveryIds : HandleDelivery(d) \/ DeliverySent(d)
    \/ EditConfigFile
    \/ CallReloadConfig

InitShared ==
    /\ SharedInit /\ VerifyIdle /\ TokenIdle /\ VaultIdle
    /\ ManualIdle /\ OAuthIdle /\ StoreIdle

\* Deliveries handled at the same time while config.json is edited and reloadConfig
\* is called by other requests.
SpecShared == InitShared /\ [][SharedNext]_vars

\* --------------------------------------------------------- specifications
Next ==
    \/ Receive
    \/ CheckHeaders
    \/ ParseBody
    \/ VerifyDelivery
    \/ Dispatch
    \/ handlePushEvent
    \/ handlePullRequestEvent
    \/ handleIssueEvent
    \/ handleReleaseEvent
    \/ FetchChannel
    \/ SendMessage
    \/ RespondOk
    \/ RespondError
    \/ EndRequest

Init == PipeInit /\ VerifyIdle /\ RouteIdle /\ TokenIdle /\ VaultIdle /\ RestIdle

\* The webhook endpoint, one delivery after another.
Spec == Init /\ [][Next]_vars

\* The steps of a delivery that are the route's own code and match no branch name:
\* once the callback or a continuation is ready, Node's event loop runs it.
LocalSteps ==
    \/ CheckHeaders
    \/ ParseBody
    \/ VerifyDelivery
    \/ Dispatch
    \/ handleIssueEvent
    \/ handleReleaseEvent
    \/ RespondOk
    \/ RespondError

\* The two handlers that match the branch of the event, run by the event loop like
\* the other steps.
BranchHandlers == handlePushEvent \/ handlePullRequestEvent

\* The calls to Discord a delivery awaits: channels.fetch and send.
ExternalCalls == FetchChannel \/ SendMessage

\* The deliveries followed to their response: with all three headers, rightly or
\* wrongly signed, of every event kind, on a body that is not JSON, that lacks the
\* repository, or that is about org/app; and the deliveries that lack a header.
LiveBodies ==
    {NotJson,
     JsonBody("undefined", RefsHeads \o Main, "opened", Main),
     JsonBody("org/app", RefsHeads \o Main, "opened", Main),
     JsonBody("org/app", RefsHeads \o Develop, "synchronize", Main),
     JsonBody("org/app", Undefined, "published", Undefined),
     JsonBody("org/app", Undefined, "created", Undefined)}

LiveDeliveries ==
    {d \in UNION {[signature : SignaturesFor(body), event : EventTypes \cup {"ping", Absent},
                   deliveryId : {"d1", Absent}, rawBody : {body}] : body \in LiveBodies} :
        \/ /\ d.event # Absent /\ d.deliveryId # Absent
           /\ d.signature \in {Sha256Prefix \o Eq \o HmacHex("s1", d.rawBody),
                                Sha256Prefix \o Eq \o HmacHex("s2", d.rawBody)}
        \/ /\ d.rawBody = NotJson
           /\ d.signature = << >> \/ d.event = Absent \/ d.deliveryId = Absent}

\* A delivery arrives at the route.
ReceiveLive ==
    /\ pc = "idle"
    /\ req' \in LiveDeliveries
    /\ pc' = "headers"
    /\ UNCHANGED << webhookSecret, cachedConfig, configFile, payload, log, verified,
                    decision, channelId, sent, err, response,
                    verifyVars, restVars, routeVars, tokenVars, vaultVars >>

NextLive == ReceiveLive \/ LocalSteps \/ BranchHandlers \/ ExternalCalls \/ EndRequest

\* The event loop runs the handler of a push or pull_request event that is ready:
\* the handler is enabled exactly when the delivery stands at it, and its step
\* leaves that position, so weak fairness of the handler says that no delivery
\* stands at it for ever.
BranchHandlersRun == []<>(pc # "push") /\ []<>(pc # "pull_request")

\* The webhook endpoint, one delivery after another, when every ready continuation
\* is run and every call to Discord returns or raises in the end.
SpecLive ==
    /\ Init /\ [][NextLive]_vars
    /\ WF_vars(LocalSteps) /\ WF_vars(ExternalCalls) /\ BranchHandlersRun

\* The positions of the rules of a configuration that bear a repository's name.
RulesOf(cfg, repoName) == {i \in 1..Len(cfg.rules) : cfg.rules[i].name = repoName}

\* The reference matcher: '*' stands for any string, possibly empty, and every
\* other character stands for itself; the whole candidate is matched.
RECURSIVE RefMatches(_, _)
RefMatches(candidate, pattern) ==
    IF pattern = << >> THEN candidate = << >>
    ELSE IF Head(pattern) = "*"
         THEN \/ RefMatches(candidate, Tail(pattern))
              \/ candidate # << >> /\ RefMatches(Tail(candidate), pattern)
         ELSE /\ candidate # << >>
              /\ Head(candidate) = Head(pattern)
              /\ RefMatches(Tail(candidate), Tail(pattern))

\* The rule shouldHandleEvent consults: the first of the repository's name.
RuleFor(cfg, repoName) ==
    cfg.rules[CHOOSE i \in RulesOf(cfg, repoName) : \A j \in RulesOf(cfg, repoName) : i <= j]

\* ------------------------------------------- claims on the webhook endpoint
InLog(step) == \E i \in 1..Len(log) : log[i] = step

\* C1: a delivery for which verifySignature did not return true (it returned false
\* or raised) runs no handler, gets no routing decision and no message, and ends
\* with an error handed to the caller, which answers 500.
C1_UnverifiedDeliveryStops ==
    verified \in {"false", "RangeError"} =>
        /\ ~InLog("handler") /\ ~InLog("route") /\ ~InLog("fetch") /\ ~InLog("send")
        /\ decision = "none"
        /\ sent = << >>
        /\ err # "none"
        /\ pc \in {"catch", "done"}
        /\ pc = "done" => response = 500

\* A push to the configured branch of a configured repository, signed with another
\* secret, has been answered.
C1_Witness ==
    /\ verified = "false"
    /\ pc = "done"
    /\ req.event = "push"
    /\ payload.repo = "org/app"
    /\ payload.ref = RefsHeads \o Main
    /\ cachedConfig = CfgPushMain

\* C4: the steps of a delivery come in the order verification, parsing, filtering
\* and routing, formatting and sending: the body is parsed only after
\* verifySignature has returned true, and a message is formatted and sent only
\* after the routing decision.
C4_ParseOnlyAfterVerification ==
    /\ \A i \in 1..Len(log) :
          log[i] = "parse" => (verified = "true" /\ \E j \in 1..(i-1) : log[j] = "verify")
    /\ \A i \in 1..Len(log) :
          log[i] \in {"format", "fetch", "send"} => \E j \in 1..(i-1) : log[j] = "route"

\* The per-kind action filter.
PassesActionFilter(event, action) ==
    \/ event = "push"
    \/ event = "pull_request" /\ action \in {"opened", "closed"}
    \/ event = "issues" /\ action \in {"opened", "closed"}
    \/ event = "release" /\ action = "published"

BranchOf(event, p) == IF event = "push" THEN RemoveFirst(p.ref, RefsHeads) ELSE p.head

\* C7: for a push or pull_request delivery the routing decision is true only if the
\* branch, whatever string it is, matches an inclusion pattern of the rule and no
\* exclusion pattern.
C7_DecisionNeedsMatchingBranch ==
    (decision = "true" /\ req.event \in {"push", "pull_request"}) =>
        LET rule   == RuleFor(cachedConfig, payload.repo)
            branch == BranchOf(req.event, payload)
        IN  /\ \E i \in 1..Len(rule.branches) : RefMatches(branch, rule.branches[i])
            /\ ~\E i \in 1..Len(rule.excludeBranches) :
                    RefMatches(branch, rule.excludeBranches[i])

\* -------------------------------------------------- claims on verifySignature
VerifyDone == vIn.fn = "verifySignature" /\ vOut # "pending"

\* The digest part of a header of the form sha256=<digest>.
DigestOf(signature) == SubSeq(signature, Len(Sha256Prefix) + 2, Len(signature))

\* C2: verifySignature returns true for the header "sha256=" + hex(HMAC(s, b)) of its
\* own body and secret, and false for every other digest of the same length (among
\* them the digest of another body whose HMAC differs).
C2_TrueForOwnDigestFalseForOthers ==
    (VerifyDone /\ vIn.signature \in WellFormedHeaders) =>
        LET d == DigestOf(vIn.signature)
            expected == HmacHex(vIn.secret, vIn.payload)
        IN  /\ d = expected => vOut = "true"
            /\ (Len(d) = Len(expected) /\ d # expected) => vOut = "false"

\* The expected negative inputs of verifySignature.
ExpectedNegative(signature) ==
    \/ signature = << >>
    \/ Split(signature, "=")[1] # Sha256Prefix
    \/ Len(Split(signature, "=")) > 2
    \/ /\ signature \in WellFormedHeaders
       /\ Len(BufferFromHex(DigestOf(signature))) # DigestBytes

\* C3: for every expected negative header (empty, a prefix other than sha256, more
\* than one '=', a digest that decodes to another length than the expected digest)
\* verifySignature returns false and raises nothing.
C3_NegativeHeadersReturnFalse ==
    (VerifyDone /\ ExpectedNegative(vIn.signature)) => vOut = "false"

\* ------------------------------------------- claims on the routing policy
ShouldDone  == rIn.fn = "shouldHandleEvent" /\ rOut.done
ChannelDone == rIn.fn = "getChannelForRepository" /\ rOut.done
MatchDone   == rIn.fn = "match" /\ rOut.done

\* C6: shouldHandleEvent returns true only if some rule is named exactly as the
\* repository and lists the event kind; without a rule of that name it returns
\* false for every event kind and every branch, no branch included.
C6_TrueOnlyForConfiguredEvent ==
    (ShouldDone /\ rOut.value) =>
        \E i \in RulesOf(rIn.cfg, rIn.repoName) : rIn.eventType \in rIn.cfg.rules[i].events

\* A repository with two rules, and one without any, have been decided.
C6_Witness ==
    /\ ShouldDone /\ rOut.value
    /\ Cardinality(RulesOf(rIn.cfg, rIn.repoName)) = 2
    /\ rIn.branch = Undefined

\* C8: exclusion wins over inclusion: for every rule and every branch string, when
\* the branch matches an exclusion pattern of the rule the decision is false,
\* whatever the inclusion patterns are.
C8_ExclusionWins ==
    (/\ ShouldDone
     /\ rIn.branch # Undefined
     /\ RulesOf(rIn.cfg, rIn.repoName) # {}
     /\ \E i \in 1..Len(RuleFor(rIn.cfg, rIn.repoName).excludeBranches) :
            RefMatches(rIn.branch, RuleFor(rIn.cfg, rIn.repoName).excludeBranches[i]))
    => ~rOut.value

\* C9: both pattern callbacks of the routing decision agree with the reference
\* matcher on every pattern and candidate.
C9_MatchAgreesWithReference ==
    MatchDone => /\ rOut.included = RefMatches(rIn.branch, rIn.b)
                 /\ rOut.excluded = RefMatches(rIn.branch, rIn.b)

\* The channel override of a rule counts unless absent, empty, "true" or "false".
UsableOverride(c) == c \notin {Absent, "", "true", "false"}

\* C10 as stated: (a) the usable override of the repository's rule, else (b) the
\* map entry of the repository when there is one, else (c) the default.
C10_ResolutionOrder ==
    ChannelDone =>
        rOut.value =
            IF /\ RulesOf(rIn.cfg, rIn.repoName) # {}
               /\ UsableOverride(RuleFor(rIn.cfg, rIn.repoName).channel)
            THEN RuleFor(rIn.cfg, rIn.repoName).channel
            ELSE IF rIn.repoName \in DOMAIN rIn.cfg.repositories
                 THEN rIn.cfg.repositories[rIn.repoName]
                 ELSE rIn.cfg.default

\* C10 (amended): (a) the usable override of the repository's rule, else (b) the map
\* entry of the repository when there is one and it is not the empty string, else
\* (c) the default.
C10_ResolutionOrderNonEmptyEntry ==
    ChannelDone =>
        rOut.value =
            IF /\ RulesOf(rIn.cfg, rIn.repoName) # {}
               /\ UsableOverride(RuleFor(rIn.cfg, rIn.repoName).channel)
            THEN RuleFor(rIn.cfg, rIn.repoName).channel
            ELSE IF /\ rIn.repoName \in DOMAIN rIn.cfg.repositories
                    /\ rIn.cfg.repositories[rIn.repoName] # ""
                 THEN rIn.cfg.repositories[rIn.repoName]
                 ELSE rIn.cfg.default

\* A rule whose override is the placeholder "true" fell through to a map entry.
C10_Witness ==
    /\ ChannelDone
    /\ RulesOf(rIn.cfg, rIn.repoName) # {}
    /\ RuleFor(rIn.cfg, rIn.repoName).channel = "true"
    /\ rIn.repoName \in DOMAIN rIn.cfg.repositories
    /\ rOut.value = "chMap"

\* ------------------------------------------- claims on the endpoint, continued
\* A verified push for "org/app" while the configuration is the one rule
\* {name "org/app", events ["push"], branches ["main"]} with no channel override
\* and no map entry.
PushFor(ref) ==
    /\ cachedConfig = CfgPushMain
    /\ req # NoReq
    /\ req.event = "push"
    /\ verified = "true"
    /\ payload.repo = "org/app"
    /\ payload.ref = ref

C11_WitnessDevelop ==
    /\ PushFor(RefsHeads \o Develop)
    /\ decision = "false"
    /\ response = 200

\* The payload holds what the handler of the event kind reads before its filter.
ReadablePayload(event, p) ==
    /\ p.repo # "undefined"
    /\ event = "push" => p.ref # Undefined
    /\ event = "pull_request" => p.head # Undefined

\* The delivery in progress is one of the by-design no-ops: its event kind has no
\* handler, or its action does not pass the handler's filter, or its routing
\* decision is false.
NoOpDelivery ==
    /\ req # NoReq
    /\ verified = "true"
    /\ \/ req.event \notin EventTypes
       \/ /\ req.event \in EventTypes
          /\ ReadablePayload(req.event, payload)
          /\ ~PassesActionFilter(req.event, payload.action)
       \/ decision = "false"

C12_WitnessFiltered ==
    /\ NoOpDelivery /\ pc = "done" /\ req.event = "pull_request"
    /\ payload.action = "synchronize"

C12_WitnessDecisionFalse ==
    /\ NoOpDelivery /\ pc = "done" /\ req.event = "push" /\ decision = "false"

\* How many times a step was taken for the delivery in progress.
Count(step) == Cardinality({i \in 1..Len(log) : log[i] = step})

\* Once the routing decision is true, the formatter and each step of the sender run
\* at most once; a routed delivery answered 200 has its one message sent; a
\* delivery during which an error was raised is answered 500, and 200 is answered
\* only if none was raised.
C13_OnceAndFailureIsNon2xx ==
    /\ Count("format") <= 1 /\ Count("fetch") <= 1 /\ Count("send") <= 1
    /\ Len(sent) <= 1
    /\ (response = 200 /\ InLog("format")) => (Len(sent) = 1 /\ InLog("send"))
    /\ (pc = "done" /\ err # "none") => response = 500
    /\ response = 200 => err = "none"
    /\ pc = "catch" => err # "none"

\* An error that was raised is the one handed on, up to the response.
C13_ErrorKept == (err # "none" /\ pc' # "idle") => err' = err

MissingHeader ==
    /\ req # NoReq
    /\ \/ req.signature = << >>
       \/ req.event = Absent
       \/ req.deliveryId = Absent

Encrypted == cOut.step \in {"encrypted", "decrypted"}
Decrypted == cOut.step = "decrypted"

\* decryptToken was given the very string encryptToken returned, and the same key.
SameBlobSameKey == Decrypted /\ cOut.tamper.kind = "none" /\ cOut.key = cIn.key

\* C15 as stated: for every plaintext p and every key k of at least 32 characters,
\* decryptToken(encryptToken(p, k), k) = p, whatever salt and IV were drawn.
C15_RoundTrip ==
    SameBlobSameKey => (cOut.dec.error = "none" /\ cOut.dec.value = cIn.token)

\* Every surrogate code unit of the string is half of a pair.
WellFormedUtf16(units) ==
    \A i \in 1..Len(units) :
        /\ IsHighSurrogate(units[i]) => (i < Len(units) /\ IsLowSurrogate(units[i + 1]))
        /\ IsLowSurrogate(units[i]) => (i > 1 /\ IsHighSurrogate(units[i - 1]))

\* C15 (amended): the round trip holds for every plaintext that is well-formed
\* UTF-16 (no surrogate code unit without its partner), every key of at least 32
\* characters and every salt and IV; the blob is salt(64) | iv(16) | tag(16) |
\* ciphertext.
C15_RoundTripWellFormed ==
    /\ (SameBlobSameKey /\ WellFormedUtf16(cIn.token)) =>
          (cOut.dec.error = "none" /\ cOut.dec.value = cIn.token)
    /\ (Encrypted /\ Len(cIn.key) >= MinKeyLength) =>
          LET bytes == BufferFromBase64(cOut.enc.value)
          IN  /\ cOut.enc.error = "none"
              /\ SubSeq(bytes, 1, SALT_LENGTH) = cIn.salt
              /\ SubSeq(bytes, SALT_LENGTH + 1, SALT_LENGTH + IV_LENGTH) = cIn.iv
              /\ Len(bytes) = HeaderLength + Len(Utf8Write(cIn.token))

\* A string holding a surrogate pair went through the round trip.
C15_Witness ==
    /\ SameBlobSameKey
    /\ cIn.token = << 55357, 56832 >>
    /\ cOut.dec.value = << 55357, 56832 >>

\* C16: with a key of at least 32 characters, decryptToken raises the one
\* decryption error, and returns no string, when the key is not the encrypting key,
\* or a byte of the salt, IV, tag or ciphertext was changed, or the blob was cut
\* short; the error for a wrong key is the error for corrupted data.
C16_FailsClosed ==
    (/\ Decrypted
     /\ Len(cOut.key) >= MinKeyLength
     /\ (cOut.key # cIn.key \/ cOut.tamper.kind # "none")) =>
        cOut.dec.error = "DecryptError"

\* C16 on a runtime whose decipher takes no short tag, and for non-empty plaintexts
\* on any runtime.
FailsClosedOtherwise ==
    (/\ Decrypted
     /\ Len(cOut.key) >= MinKeyLength
     /\ (cOut.key # cIn.key \/ cOut.tamper.kind # "none")
     /\ (~cOut.shortTags \/ cIn.token # << >>)) =>
        cOut.dec.error = "DecryptError"

\* C17: encryptToken and decryptToken reject a key that is absent or shorter than
\* 32 characters with a configuration error, before any key derivation; such a
\* key is never accepted.
C17_ShortKeyRejected ==
    /\ (Encrypted /\ Len(cIn.key) < MinKeyLength) =>
          (cOut.enc.error = "ConfigError" /\ ~cOut.enc.derived)
    /\ (Decrypted /\ Len(cOut.key) < MinKeyLength) =>
          (cOut.dec.error = "ConfigError" /\ ~cOut.dec.derived)

\* decryptToken was given an intact blob and a key of 31 characters.
C17_Witness ==
    /\ Decrypted
    /\ cOut.tamper.kind = "none"
    /\ Len(cOut.key) = MinKeyLength - 1
    /\ cOut.dec.error = "ConfigError"

\* encryptToken was given a key of 31 characters.
C17_WitnessEncrypt ==
    /\ cOut.step = "encrypted"
    /\ Len(cIn.key) = MinKeyLength - 1
    /\ cOut.enc.error = "ConfigError"

\* C18: when calls of getStoredToken run concurrently while the cache is empty, at
\* most one of them derives a key and decrypts, the others wait for or reuse its
\* result; with no storeToken call the cache is written at most once.
C18_SingleDerivation ==
    /\ Cardinality({c \in Callers : caller[c].overlapped /\ caller[c].derived > 0}) <= 1
    /\ cacheWrites <= 1

\* Without a Redis client a call has no await before it returns: calls never
\* overlap and the cache is written at most once.
SingleDerivationWithoutRedis ==
    ~redisClient =>
        /\ \A c \in Callers : ~InFlight(c) /\ ~caller[c].overlapped
        /\ cacheWrites <= 1

\* ------------------------------------------- claims on configuration loading
\* What validation is to guarantee of a snapshot: a default destination, and for
\* every rule a name, a non-empty list of events of the four kinds, and a
\* non-empty list of branch patterns.
FullyFormed(cfg) ==
    /\ cfg # NoConfig
    /\ cfg.default \notin {Absent, ""}
    /\ \A i \in 1..Len(cfg.rules) :
          /\ cfg.rules[i].name \notin {Absent, ""}
          /\ cfg.rules[i].events # {}
          /\ cfg.rules[i].events \subseteq {"push", "pull_request", "issues", "release"}
          /\ Len(cfg.rules[i].branches) >= 1

\* C19: after any sequence of loadConfig and reloadConfig calls, successful or
\* failing, the cache holds nothing or a snapshot that passed validation, and every
\* routing decision and destination lookup has read such a snapshot; a call that
\* found the file missing or invalid returns no snapshot.
C19_OnlyValidatedSnapshots ==
    /\ cachedConfig # NoConfig => FullyFormed(cachedConfig)
    /\ (rOut.done /\ rIn.fn \in {"loadConfig", "reloadConfig", "route"}) =>
          IF rOut.error = "none"
          THEN FullyFormed(rOut.used) /\ rOut.used = cachedConfig
          ELSE rOut.used = NoConfig /\ ~rOut.decision /\ rOut.channel = "none"

\* After a good snapshot was cached, the file lost a rule's branch list and
\* reloadConfig failed: the routing call that follows gets no decision.
C19_Witness ==
    /\ rIn.fn = "route"
    /\ rOut.done /\ rOut.error = "ConfigError"
    /\ configFile.cfg = CfgNoBranches
    /\ cachedConfig = NoConfig

\* A routing decision was read from the snapshot cached before the file went bad.
C19_WitnessStale ==
    /\ rIn.fn = "route"
    /\ rOut.done /\ rOut.error = "none" /\ rOut.decision
    /\ configFile.cfg = CfgBadEvent /\ configFile.json

\* ------------------------------------------- claims on manual commit replay
\* The repository branches that routing matches against the rule's inclusion
\* patterns.
RoutingMatched(names, patterns) ==
    {n \in names : \E i \in 1..Len(patterns) : branchMatches(patterns[i], n)}

\* C20: in manual commit replay the branches the filter lets through are exactly
\* the repository branches that match an inclusion pattern of the rule as routing
\* matches them (exact, "*", '*' anywhere in the pattern), and only such branches
\* are considered by branch resolution.
C20_ReplayFilterIsRoutingMatch ==
    (rIn.fn = "postCommit" /\ rOut.done) =>
        /\ rOut.matched = RoutingMatched(rIn.names, rIn.patterns)
        /\ rOut.considered \subseteq RoutingMatched(rIn.names, rIn.patterns)

\* The two agree on patterns that are exact names or one prefix followed by '*',
\* the prefix holding no '.'.
PlainPrefixPattern(p) ==
    \A i \in 1..Len(p) : p[i] # "." /\ (p[i] = "*" => i = Len(p))

ReplayAgreesOnPlainPrefixes ==
    (rIn.fn = "postCommit" /\ rOut.done
     /\ \A i \in 1..Len(rIn.patterns) : PlainPrefixPattern(rIn.patterns[i])) =>
        rOut.matched = RoutingMatched(rIn.names, rIn.patterns)

\* ------------------------------------------- claims on manual branch resolution
\* The date postCommit holds for a branch once Promise.all has settled.
DateOf(name) ==
    branchesWithDates[CHOOSE i \in 1..Len(branchesWithDates) :
                          branchesWithDates[i].name = name].date

Range(s) == {s[i] : i \in 1..Len(s)}

DatedNames == {branchesWithDates[i].name : i \in 1..Len(branchesWithDates)}

\* The patterns of the rule postCommit found for the repository.
ReplayRule == cachedConfig.rules[FindRule(cachedConfig, mIn.repoName)].branches

IsCandidate(i) == examined[i].tip \/ (examined[i].fetch = "ok" /\ examined[i].index # -1)

DistanceAt(i) == IF examined[i].tip THEN 0 ELSE examined[i].index

\* Head of branch first, then the smaller distance, then the earlier turn.
Precedes(i, j) ==
    \/ examined[i].tip /\ ~examined[j].tip
    \/ /\ examined[i].tip = examined[j].tip
       /\ \/ DistanceAt(i) < DistanceAt(j)
          \/ DistanceAt(i) = DistanceAt(j) /\ i <= j

\* The candidate loop has ended and the selection was made.
Selected ==
    /\ mIn.fn = "postCommit"
    /\ examined # << >>
    /\ mpc # "loop"

\* C22: the branch selected is the candidate that comes first when candidates are
\* ordered head of branch first, then by smaller distance, then by earlier turn of
\* the loop; so a branch whose tip is the commit is preferred to one that holds the
\* commit at position 2 of its history, whichever was examined first.
C22_SelectsMinimum ==
    (Selected /\ \E j \in 1..Len(examined) : IsCandidate(j)) =>
        \E i \in 1..Len(examined) :
            /\ IsCandidate(i)
            /\ resolvedBranch = examined[i].name
            /\ \A j \in 1..Len(examined) : IsCandidate(j) => Precedes(i, j)

\* The commit was found at position 2 of the first branch examined and is the tip
\* of two later ones: the first of the two tips is the branch selected.
C22_Witness ==
    /\ Selected
    /\ Len(examined) >= 3
    /\ ~examined[1].tip /\ examined[1].index = 2
    /\ examined[2].tip /\ examined[3].tip
    /\ resolvedBranch = examined[2].name

\* postCommit found the repository's rule and went into branch resolution, which
\* has ended without a candidate.
ResolutionEndedEmpty ==
    /\ mIn.fn = "postCommit"
    /\ resolvedBranch # << >>
    /\ cachedConfig # NoConfig
    /\ FindRule(cachedConfig, mIn.repoName) # 0
    /\ mpc \in {"stats", "send", "returned", "threw"}
    /\ branchCandidates = << >>

\* C23: whenever branch resolution ends without a candidate, be it that no examined
\* branch holds the commit or that no branch of the repository matches the rule's
\* patterns, the branch is the default "main" and the replay goes on to format and
\* send: it does not return before a message was sent.
C23_NoCandidateFallsBackToMain ==
    ResolutionEndedEmpty =>
        /\ resolvedBranch = MainBranch
        /\ mpc = "returned" => (Len(posted) = 1 /\ posted[1].branch = MainBranch)

\* The same for the first of the two cases only: branches were examined and none
\* holds the commit.
NoneContainsFallsBackToMain ==
    (ResolutionEndedEmpty /\ examined # << >>) =>
        /\ resolvedBranch = MainBranch
        /\ mpc = "returned" => (Len(posted) = 1 /\ posted[1].branch = MainBranch)

\* No branch matched the patterns and postCommit returned without a message.
C23_SilentReturn ==
    /\ ResolutionEndedEmpty
    /\ branchesWithDates = << >> /\ mIn.names # << >>
    /\ mpc = "returned" /\ posted = << >> /\ manualStatus = 200

CandidateNames == {branchCandidates[i].name : i \in 1..Len(branchCandidates)}

\* C24: a history fetch that fails (an error or a timeout that the client raises)
\* counts as "commit not found on that branch": no candidate is recorded for the
\* branch, the candidates of the other branches are kept, and the loop goes on to
\* the remaining branches, so that the selection is made over all of them.
C24_FetchFailureIsNotFound ==
    mIn.fn = "postCommit" =>
        /\ \A i \in 1..Len(examined) :
              /\ examined[i].fetch = "failed" => examined[i].name \notin CandidateNames
              /\ IsCandidate(i) => examined[i].name \in CandidateNames
        /\ Selected => Len(examined) = Len(toCheck)

\* The history fetch of the first branch failed, the second branch was examined all
\* the same and, holding the commit, became the branch of the message sent.
C24_Witness ==
    /\ mIn.fn = "postCommit"
    /\ Len(examined) >= 2
    /\ examined[1].fetch = "failed"
    /\ IsCandidate(2) /\ resolvedBranch = examined[2].name
    /\ mpc = "returned" /\ Len(posted) = 1 /\ posted[1].branch = examined[2].name

\* The candidate recorded for the branch of turn i.
CandidateOf(i) ==
    branchCandidates[CHOOSE k \in 1..Len(branchCandidates) :
                         branchCandidates[k].name = examined[i].name]

\* C27: for each branch examined, if its tip is the commit a candidate (distance 0,
\* head of branch) is recorded and no history is fetched for it; otherwise a window
\* of at most ten commits is fetched and a candidate (distance k, not head) is
\* recorded exactly when the commit stands at index k of the window.
C27_CandidatePerBranch ==
    mIn.fn = "postCommit" =>
        \A i \in 1..Len(examined) :
            IF examined[i].tip
            THEN /\ examined[i].fetch = "none"
                 /\ examined[i].name \in CandidateNames
                 /\ CandidateOf(i).distance = 0 /\ CandidateOf(i).isHead
            ELSE /\ examined[i].fetch # "none"
                 /\ examined[i].index < HistoryWindow
                 /\ examined[i].name \in CandidateNames
                        <=> (examined[i].fetch = "ok" /\ examined[i].index # -1)
                 /\ examined[i].name \in CandidateNames =>
                        /\ CandidateOf(i).distance = examined[i].index
                        /\ ~CandidateOf(i).isHead

\* One branch had the commit as its tip, another at index 2 of its window, a third
\* nowhere in its window.
C27_Witness ==
    /\ mIn.fn = "postCommit"
    /\ Len(examined) >= 3
    /\ examined[1].tip
    /\ examined[2].fetch = "ok" /\ examined[2].index = 2
    /\ examined[3].fetch = "ok" /\ examined[3].index = -1
    /\ Len(branchCandidates) = 2

\* The function called by the manual endpoint has returned; it has thrown.
ManualReturned == mpc = "returned"

ManualThrew == mpc = "threw"

\* C25: whenever postCommit, postPullRequest or postIssue returns without raising,
\* exactly one message was sent, to the channel getChannelForRepository gives for
\* the repository; in every other case the caller gets the error (the endpoint
\* answers 500 and never reports success).
C25_ReturnMeansOneMessage ==
    /\ ManualReturned =>
          /\ Len(posted) = 1
          /\ posted[1].channel = getChannelForRepository(mIn.repoName, cachedConfig)
    /\ ManualThrew => posted = << >> /\ manualStatus \in {0, 500}
    /\ manualStatus = 200 => Len(posted) = 1

\* The same for postPullRequest and postIssue, and for postCommit once branch
\* resolution got as far as examining a branch.
ReturnMeansOneMessageElsewhere ==
    (mIn.fn \in {"postPullRequest", "postIssue"} \/ examined # << >>) =>
        /\ ManualReturned =>
              /\ Len(posted) = 1
              /\ posted[1].channel = getChannelForRepository(mIn.repoName, cachedConfig)
        /\ ManualThrew => posted = << >> /\ manualStatus \in {0, 500}
        /\ manualStatus = 200 => Len(posted) = 1

\* postCommit returned for a repository without a rule: nothing was sent and the
\* endpoint reported success.
C25_SilentSuccess ==
    /\ mIn.fn = "postCommit"
    /\ cachedConfig # NoConfig /\ FindRule(cachedConfig, mIn.repoName) = 0
    /\ ManualReturned /\ posted = << >> /\ manualStatus = 200

\* ------------------------------------------- claims on the OAuth state
\* C26: the authorization code is exchanged only by a callback whose state
\* parameter is present and equals the state stored in the browser session, and a
\* stored state is used once: no two callbacks of the session exchange a code
\* under the same state.
C26_StateCheckedAndSingleUse ==
    /\ \A i \in 1..Len(exchanges) :
          exchanges[i].state # 0 /\ exchanges[i].state = exchanges[i].stored
    /\ \A i, j \in 1..Len(exchanges) :
          exchanges[i].state = exchanges[j].state => i = j

\* The first half alone: every exchange follows a state that is present and is the
\* session's.
ExchangeNeedsMatchingState ==
    \A i \in 1..Len(exchanges) :
        exchanges[i].state # 0 /\ exchanges[i].state = exchanges[i].stored

\* Single use for callbacks that do not overlap: once the callback that used a
\* state was answered and its session written back, no callback exchanges a code
\* under that state.
SingleUseAfterTheAnswer ==
    [][Len(exchanges') > Len(exchanges) =>
          \A i \in 1..Len(exchanges) :
              exchanges[i].state = exchanges'[Len(exchanges')].state =>
                  ~(/\ handlers[exchanges[i].request].pc = "done"
                    /\ handlers[exchanges[i].request].saved)]_vars

\* Two callbacks of the session are exchanging a code under the same state.
C26_StateUsedTwice ==
    \E i, j \in 1..Len(exchanges) :
        /\ i # j
        /\ exchanges[i].state = exchanges[j].state
        /\ handlers[exchanges[i].request].pc = "exchanging"
        /\ handlers[exchanges[j].request].pc = "exchanging"

\* ------------------------------------------- claims on the stored token
\* C28: under every interleaving of storeToken and getStoredToken at their awaits,
\* once storeToken(t) has completed, the cache holds t and every call of
\* getStoredToken that returns afterwards returns t; a getStoredToken that began
\* before the store never puts an older token back into the cache.
C28_StoreWinsOverLookups ==
    (completed # << >> /\ ~restarted) =>
        /\ cachedToken = completed
        /\ \A c \in Callers :
              (caller[c].pc = "done" /\ caller[c].afterStore) =>
                  caller[c].result = completed

\* The same when no getStoredToken was at an await while storeToken ran.
StoreWinsWhenNotOverlapped ==
    (completed # << >> /\ ~restarted /\ storer.alone) =>
        /\ cachedToken = completed
        /\ \A c \in Callers :
              (caller[c].pc = "done" /\ caller[c].afterStore) =>
                  caller[c].result = completed

\* A getStoredToken that began before the store put the older token into the cache
\* after storeToken had cached the new one, and storeToken has completed.
C28_OlderTokenCached ==
    /\ completed = NewToken /\ ~restarted
    /\ cachedToken = StoredToken
    /\ \E c \in Callers : caller[c].pc = "done" /\ ~caller[c].beganAfter

\* C29: after storeToken(t) has completed (by the write to Redis or, that write
\* failing, by the write to the disk) and the process was restarted with an empty
\* cache, getStoredToken returns t, whether or not Redis is available at the read
\* and whatever older blob Redis or the disk still holds.
C29_StoredTokenSurvivesRestart ==
    (restarted /\ storer.alone) =>
        \A c \in Callers : caller[c].pc = "done" => caller[c].result = completed

\* The write to Redis failed, the new blob went to the disk, and after the restart
\* getStoredToken returned the older token that Redis still held.
C29_OlderBlobWins ==
    /\ restarted /\ storer.alone
    /\ tokenFile = NewBlob /\ redisValue = GoodBlob
    /\ \E c \in Callers : caller[c].pc = "done" /\ caller[c].result = StoredToken

\* C30: hasStoredToken() is true exactly when getStoredToken() called in the same
\* state returns a token: also when the token is in Redis only and the cache is
\* empty, and when the file on disk cannot be decrypted.
C30_HasIffGetReturnsToken ==
    \A c \in Callers :
        (caller[c].pc = "done" /\ caller[c].alone) =>
            (caller[c].has <=> caller[c].result # << >>)

\* The same when Redis holds nothing and the file, if any, decrypts.
HasIffGetWithoutRedisValue ==
    (redisValue = << >> /\ tokenFile # CorruptBlob /\ completed = << >>) =>
        \A c \in Callers :
            (caller[c].pc = "done" /\ caller[c].alone) =>
                (caller[c].has <=> caller[c].result # << >>)

\* The token is in Redis only: hasStoredToken said no, getStoredToken returned it.
C30_RedisOnly ==
    \E c \in Callers :
        /\ caller[c].pc = "done" /\ caller[c].alone
        /\ tokenFile = << >>
        /\ ~caller[c].has /\ caller[c].result = StoredToken

\* The file does not decrypt: hasStoredToken said yes, getStoredToken returned null.
C30_UndecryptableFile ==
    \E c \in Callers :
        /\ caller[c].pc = "done" /\ caller[c].alone
        /\ tokenFile = CorruptBlob
        /\ caller[c].has /\ caller[c].result = << >>

\* ------------------------------------------- claims on the OAuth callback
\* C31: the callback sends the page "Setup Complete" only after storeToken has
\* finished persisting the token, and when storing fails it answers with the error
\* page, not with the success page.
C31_SuccessOnlyAfterStored ==
    \A r \in Requests :
        /\ (handlers[r].kind = "callback" /\ handlers[r].status = 200) =>
               handlers[r].store = "stored"
        /\ handlers[r].store = "failed" => handlers[r].status # 200

\* The success page never goes out without an exchanged token and a call of
\* storeToken, and a failed exchange gets the error page.
SuccessOnlyAfterExchange ==
    \A r \in Requests :
        /\ (handlers[r].kind = "callback" /\ handlers[r].status = 200) =>
               handlers[r].store # "none"
        /\ (handlers[r].kind = "callback" /\ handlers[r].pc \in {"saving", "done"}
            /\ handlers[r].store = "none") => handlers[r].status \in {400, 500}

\* The success page was sent and storeToken then failed.
C31_SuccessPageThenStoreFailed ==
    \E r \in Requests :
        /\ handlers[r].kind = "callback" /\ handlers[r].pc = "done"
        /\ handlers[r].status = 200 /\ handlers[r].store = "failed"

\* storeToken has just thrown, and no getStoredToken was at an await meanwhile.
StoreJustFailed ==
    storer.pc # "failed" /\ storer'.pc = "failed" /\ storer'.alone

\* C32: when storeToken(t) raises, for a missing or short key, a failure of the
\* encryption, or a failure of the write to Redis and to the disk, the cached token
\* is what it was before the call; so the cache never holds the token of a failed
\* store that neither Redis nor the disk holds.
C32_FailedStoreLeavesCache ==
    /\ [][StoreJustFailed => cachedToken' = storer'.before]_vars
    /\ []((storer.pc = "failed" /\ cachedToken = NewToken) =>
              (redisValue = NewBlob \/ tokenFile = NewBlob))

\* The same for the failures that come before the token is cached: the key.
KeyFailureLeavesCache ==
    [][(StoreJustFailed /\ storer'.cause = "key") => cachedToken' = storer'.before]_vars

\* storeToken threw on the write and the cache holds the token nothing else holds.
C32_CachedButNowhereStored ==
    /\ storer.pc = "failed" /\ storer.cause = "write" /\ storer.alone
    /\ cachedToken = NewToken /\ storer.before # NewToken
    /\ redisValue # NewBlob /\ tokenFile # NewBlob

\* This step is a call of reloadConfig() that threw while a snapshot was cached.
ReloadJustFailed ==
    /\ cachedConfig # NoConfig
    /\ rIn'.fn = "reloadConfig" /\ rOut'.done /\ rOut'.error # "none"
    /\ << rIn, rOut, cachedConfig >> # << rIn', rOut', cachedConfig' >>

\* C33: a reloadConfig that fails leaves the snapshot cached before it in place, and
\* a routing call that follows the failed reload succeeds, deciding against that
\* snapshot.
C33_FailedReloadKeepsSnapshot ==
    /\ [][ReloadJustFailed => cachedConfig' = cachedConfig]_vars
    /\ [][(rIn.fn = "reloadConfig" /\ rOut.done /\ rOut.error # "none"
           /\ rIn'.fn = "route")
          => (rOut'.error = "none" /\ rOut'.used # NoConfig)]_vars

\* What does hold: a reloadConfig that fails leaves no snapshot at all.
FailedReloadEmptiesCache ==
    [][ReloadJustFailed => cachedConfig' = NoConfig]_vars

\* reloadConfig failed on an invalid file and the cache is empty.
C33_SnapshotLost ==
    /\ rIn.fn = "reloadConfig" /\ rOut.done /\ rOut.error = "ConfigError"
    /\ cachedConfig = NoConfig

\* ------------------------------------------- claims on the life of a delivery
\* The terminal outcomes of a delivery, each read from what the route has done.
Outcomes == {"rejected", "authentication failed", "ignored", "filtered out", "sent",
             "failed"}

LastLogged == IF log = << >> THEN "none" ELSE log[Len(log)]

EndedAs(o) ==
    CASE o = "rejected" -> response = 400 /\ log = << "headers" >>
      [] o = "authentication failed" ->
            response = 500 /\ LastLogged = "verify" /\ verified # "true"
      [] o = "ignored" -> response = 200 /\ LastLogged = "unhandled" /\ sent = << >>
      [] o = "filtered out" ->
            /\ response = 200 /\ sent = << >>
            /\ LastLogged = "filtered" \/ (LastLogged = "route" /\ decision = "false")
      [] o = "sent" ->
            /\ response = 200 /\ LastLogged = "send"
            /\ decision = "true" /\ sent = << channelId >>
      [] OTHER ->
            /\ response = 500 /\ err # "none" /\ sent = << >>
            /\ LastLogged # "verify"

C36_AbbreviatedResolvesAsFull ==
    (rIn.fn = "resolveBranch" /\ rOut.done) =>
        /\ rOut.candidates = candidateLoop(rIn.branches, rIn.commit, << >>)
        /\ rOut.branch = selectBranch(candidateLoop(rIn.branches, rIn.commit, << >>),
                                      MainBranch)
        /\ \A i \in 1..Len(rIn.branches) :
              (\E k \in 1..Len(rIn.branches[i].commits) :
                  rIn.branches[i].commits[k] = rIn.commit)
              => \E j \in 1..Len(rOut.candidates) :
                    rOut.candidates[j].name = rIn.branches[i].name

\* What holds instead: an abbreviated identifier equals no SHA, records no
\* candidate, and the branch is the default.
AbbreviatedFindsNoCandidate ==
    (rIn.fn = "resolveBranch" /\ rOut.done /\ Len(rIn.commitSha) < ShaLength) =>
        rOut.candidates = << >> /\ rOut.branch = MainBranch

\* The commit is the tip of develop, it was asked for by a prefix of its SHA, and
\* main was taken.
C36_TipMissedByPrefix ==
    /\ rIn.fn = "resolveBranch" /\ rOut.done
    /\ rIn.commitSha # rIn.commit
    /\ rIn.branches[1].sha = rIn.commit
    /\ rOut.branch = MainBranch

\* ------------------------------------------- claims on concurrent deliveries
\* C35: within one delivery the routing decision and the destination lookup read
\* the same configuration snapshot, whatever deliveries, edits of config.json and
\* calls of reloadConfig run at the same time; the destination is the one that
\* snapshot gives.
C35_OneSnapshotPerDelivery ==
    \A d \in DeliveryIds :
        inFlight[d].decision =>
            /\ inFlight[d].lookedUpOn = inFlight[d].decidedOn
            /\ inFlight[d].decidedOn # NoConfig

\* A delivery awaits Discord with the destination of the snapshot it decided on,
\* while a reloadConfig has put another snapshot in the cache.
C35_Witness ==
    \E d \in DeliveryIds :
        /\ inFlight[d].pc = "sending" /\ inFlight[d].decision
        /\ rIn.fn = "reloadConfig" /\ rOut.error = "none"
        /\ cachedConfig # NoConfig /\ cachedConfig # inFlight[d].decidedOn
        /\ inFlight[d].lookedUpOn = inFlight[d].decidedOn

====
